---- MODULE Spec2Model ----
(***************************************************************************)
(* Model of the voice dialog engine of robot_project:                      *)
(*   src/voice/dialog_manager.py  VoiceDialogManager (the orchestrator)    *)
(*   src/voice/asr.py             VolcengineASR.recognize_realtime         *)
(*   src/voice/tts.py             VolcengineTTS.synthesize_stream          *)
(* The engine is one asyncio coroutine; pc is its position.  The tasks it  *)
(* spawns (send_audio, receive_results, _send_audio_to_asr) and the        *)
(* finalizer of an abandoned synthesize_stream generator are separate      *)
(* actions that interleave with it at its suspension points.               *)
(* Text is a sequence of characters; a character is written as its pinyin. *)
(***************************************************************************)
EXTENDS Integers, Sequences, FiniteSets, TLC

\* ------------------------------------------------------------------ bounds
MaxOrphans == 1        \* abandoned synthesizer generators not yet finalized
MaxListenReads == 3    \* capture reads in one _wait_for_speech_start
MaxAsrMsgs == 2        \* server messages after the ack in one recognizer session
MaxAudioReads == 1     \* capture reads of one _send_audio_to_asr task
MaxTtsFrames == 3      \* server frames in the receive loop of one synthesizer session

\* ------------------------------------------------------- program constants
buffer_threshold == 3200     \* _speak: bytes buffered before a playback write
pre_buffer_max == 15         \* _wait_for_speech_start: pre-roll depth
speech_threshold == 3        \* _wait_for_speech_start: consecutive speech chunks
settle_ticks == 5            \* _speak: wait_after_speak = 0.5, in 0.1 s ticks

\* ---------------------------------------------------------------- text
exit_keywords == { <<"tui", "chu">>, <<"zai", "jian">>, <<"bai", "bai">>, <<"jie", "shu">> }

farewell_cue == <<"zai", "jian">>

\* kw in text  (Python substring test)
Contains(text, kw) ==
    \E i \in 1..(Len(text) - Len(kw) + 1) : SubSeq(text, i, i + Len(kw) - 1) = kw

HasExitKeyword(text) == \E kw \in exit_keywords : Contains(text, kw)

\* VolcengineASR.corrections, restricted to the entries the modelled texts can hit
corrections == { << <<"qing", "yu2">>, <<"qing", "yu">> >> }

RECURSIVE ReplaceAll(_, _, _)
ReplaceAll(text, wrong, correct) ==
    IF Len(text) < Len(wrong) THEN text
    ELSE IF SubSeq(text, 1, Len(wrong)) = wrong
         THEN correct \o ReplaceAll(SubSeq(text, Len(wrong) + 1, Len(text)), wrong, correct)
         ELSE <<text[1]>> \o ReplaceAll(Tail(text), wrong, correct)

RECURSIVE ApplyCorrections(_, _)
ApplyCorrections(text, cs) ==
    IF cs = {} THEN text
    ELSE LET c == CHOOSE x \in cs : TRUE
         IN ApplyCorrections(ReplaceAll(text, c[1], c[2]), cs \ {c})

_post_correct(text) == IF text = <<>> THEN text ELSE ApplyCorrections(text, corrections)

\* raw texts the recognizer server may put in a message
ServerTexts == { <<"ni", "hao">>, <<"qing", "yu2", "bai", "bai">>, <<"suan", "le">> }

\* texts the server may send as a partial (not definite) result
PartialTexts == { <<"ni", "hao">> }

\* server messages: a definite result, a partial result, or a message without text
ServerMessages == { [raw |-> t, definite |-> TRUE] : t \in ServerTexts }
                      \cup { [raw |-> t, definite |-> FALSE] : t \in PartialTexts }
                      \cup { [raw |-> <<>>, definite |-> FALSE] }

\* no speaker name (None)
NoName == <<>>

\* speakers the identification collaborator may know
KnownNames == { <<"qing", "yu">> }

\* names the classification of an utterance may report
NewNames == { <<"xiao", "ming">> }

\* ------------------------------------------------------------- _extract_name
\* punctuation removed from a candidate name
Punctuation == { ",", ".", "!", "?" }

\* characters the name group of the first and third pattern does not accept
NameStops == Punctuation \cup { "wo", "shi", "jiao" }

\* _extract_name.skip_words
skip_words == { <<"shen", "me">>, <<"shei">>, <<"ni", "hao">>, <<"en">>, <<"a">>, <<"o">>,
                <<"e">>, <<"na", "ge">>, <<"zhe", "ge">>, <<"gan", "ma2">>, <<"zen", "me">>,
                <<"hao", "de">>, <<"zhi", "dao">>, <<"ke", "yi">>, <<"bu", "shi">>,
                <<"mei", "you">>, <<"tui", "chu">>, <<"zai", "jian">>, <<"bai", "bai">>,
                <<"jie", "shu">>, <<"ting", "zhi3">>, <<"guan", "bi">> }

\* the introductions of the first pattern after "wo": shi | jiao | de ming zi shi | ming jiao
NameIntros == { <<"shi">>, <<"jiao">>, <<"de", "ming", "zi", "shi">>, <<"ming", "jiao">> }

\* the prefixes the fallback strips: wo shi | wo jiao | jiao wo | wo de ming zi shi
NamePrefixes == { <<"wo", "shi">>, <<"wo", "jiao">>, <<"jiao", "wo">>,
                  <<"wo", "de", "ming", "zi", "shi">> }

\* text has part at position i
HasAt(text, i, part) ==
    i + Len(part) - 1 <= Len(text) /\ SubSeq(text, i, i + Len(part) - 1) = part

\* re.sub(r'(wo shi|wo jiao){2,}', r'\1', text): a run of repeated introductions is
\* replaced by its last one
RECURSIVE CollapseIntros(_)
CollapseIntros(text) ==
    LET twice == \E a, b \in { <<"wo", "shi">>, <<"wo", "jiao">> } : HasAt(text, 1, a \o b)
    IN IF text = <<>> THEN text
       ELSE IF twice THEN CollapseIntros(SubSeq(text, 3, Len(text)))
       ELSE << Head(text) >> \o CollapseIntros(Tail(text))

\* the length of the group {2,4} matched greedily at position i over characters not in stops
GroupLen(text, i, stops) ==
    LET ok(k) == \A j \in i..(i + k - 1) : j <= Len(text) /\ text[j] \notin stops
    IN IF ok(4) THEN 4 ELSE IF ok(3) THEN 3 ELSE IF ok(2) THEN 2 ELSE 0

\* re.search with the first pattern: the group of the leftmost match, or nothing
Pattern1(text) ==
    LET at(i) == text[i] = "wo" /\ \E a \in NameIntros :
                     HasAt(text, i + 1, a) /\ GroupLen(text, i + 1 + Len(a), NameStops) > 0
        hits == { i \in 1..Len(text) : at(i) }
    IN IF hits = {} THEN <<>>
       ELSE LET i == CHOOSE h \in hits : \A g \in hits : h <= g
                a == CHOOSE x \in NameIntros : HasAt(text, i + 1, x)
                st == i + 1 + Len(a)
            IN SubSeq(text, st, st + GroupLen(text, st, NameStops) - 1)

\* re.search with the second pattern (jiao wo ...)
Pattern2(text) ==
    LET hits == { i \in 1..Len(text) : HasAt(text, i, <<"jiao", "wo">>)
                                       /\ GroupLen(text, i + 2, Punctuation) > 0 }
    IN IF hits = {} THEN <<>>
       ELSE LET i == CHOOSE h \in hits : \A g \in hits : h <= g
            IN SubSeq(text, i + 2, i + 1 + GroupLen(text, i + 2, Punctuation))

\* re.search with the third pattern: the whole text, two to four accepted characters
Pattern3(text) ==
    IF Len(text) \in 2..4 /\ \A j \in 1..Len(text) : text[j] \notin NameStops
    THEN text ELSE <<>>

\* re.sub(r'[punctuation]', '', name)
StripPunctuation(name) == SelectSeq(name, LAMBDA c : c \notin Punctuation)

\* the test a candidate passes to be returned as the name
AcceptedName(name) ==
    /\ Len(name) > 1 /\ Len(name) <= 4
    /\ name \notin skip_words
    /\ name[Len(name)] # "ma"

\* re.sub(r'^(prefixes)+', '', text)
RECURSIVE StripPrefixes(_)
StripPrefixes(text) ==
    IF \E q \in NamePrefixes : HasAt(text, 1, q)
    THEN LET q == CHOOSE x \in NamePrefixes : HasAt(text, 1, x)
         IN StripPrefixes(SubSeq(text, Len(q) + 1, Len(text)))
    ELSE text

\* _extract_name: the first pattern whose group is accepted, else the stripped text if it
\* is accepted, else None
_extract_name(user_text) ==
    LET text == CollapseIntros(user_text)
        c1 == StripPunctuation(Pattern1(text))
        c2 == StripPunctuation(Pattern2(text))
        c3 == StripPunctuation(Pattern3(text))
        clean_text == StripPunctuation(StripPrefixes(text))
    IN IF AcceptedName(c1) THEN c1
       ELSE IF AcceptedName(c2) THEN c2
       ELSE IF AcceptedName(c3) THEN c3
       ELSE IF AcceptedName(clean_text) THEN clean_text
       ELSE NoName

\* what _ai_understand_name may return: the classification and, for a name, the name
AiResults ==
    { [kind |-> "is_name", name |-> n, reply |-> FALSE] : n \in NewNames \cup { NoName } }
      \cup { [kind |-> "skip", name |-> NoName, reply |-> FALSE] }
      \cup { [kind |-> "other_intent", name |-> NoName, reply |-> r] : r \in BOOLEAN }
      \cup { [kind |-> "nothing", name |-> NoName, reply |-> FALSE] }

\* _ai_understand_name was not called in this turn
NoAiResult == [kind |-> "none", name |-> NoName, reply |-> FALSE]

\* one capture read seen by the VAD vote: the classification of each full frame in it
FrameVotes == { <<>>, <<TRUE>>, <<FALSE>>, <<TRUE, FALSE>> }

\* payload sizes (bytes) of the audio frames the synthesizer server may send
ChunkSizes == { 1600, 3200 }

VARIABLES
    \* ---- VoiceDialogManager fields
    pc,                    \* position of the engine coroutine (run / _main_loop / callees)
    running, is_speaking, is_listening, wait_after_speak,
    _aec_enabled, audio_stream,
    stale_read,            \* a worker-thread read of the capture stream outlived its task
    awaiting_name, current_speaker_name, pending_registration,
    audio_queue, audio_buffer, stop_asr_event,
    \* ---- locals of the current turn
    pre_buffer, consecutive_speech, listen_reads, captured,
    final_text, audio_data, speaker_name, awaiting_at_start,
    \* ---- recognize_realtime
    ws, asr_open, asr_final_text, asr_result, send_task, recv_task, audio_task,
    asr_msgs, audio_reads, recv_end, asr_received,
    \* ---- _speak / synthesize_stream
    speak_kind, interruptible, speak_ret, buffer, played,
    tts_open, tts_sent, response, tts_frames, tts_yielded, orphans, barged, barge_checks,
    sampled,
    \* ---- what the current turn has done so far
    on_result_log, asr_sent, chat_calls, identify_calls, ai_result, spoken,
    \* ---- VADDetector: its two thresholds, the chunks its audio_stream has yielded and
    \* the locals of detect_speech_segments
    speech_start_frames, speech_end_frames, stream_read, detect,
    \* ---- VolcengineASR frames: what a request was built from, its bytes, and what
    \* _parse_response makes of them
    built_from, request_bytes, resp_data,
    \* ---- EcEchoCanceller: its configuration switch, process handle and descriptors, the
    \* bridge processes alive and launched, how the last call ended, the position reached
    \* in the cancelled-output pipe and the locals of read_capture
    enabled, _proc, _playback_fd, _capture_fd, ec_alive, ec_launched, aec_last,
    pipe_pos, capture,
    \* ---- one call of _extract_name: its argument and what it returned
    extraction,
    \* ---- one call of _wait_for_speech_start on chunks of any length: what it has read
    \* and its locals
    onset_wait

flagVars == << running, is_speaking, is_listening, wait_after_speak >>
vadVars == << speech_start_frames, speech_end_frames, stream_read, detect >>
wireVars == << built_from, request_bytes, resp_data >>
aecVars == << enabled, _proc, _playback_fd, _capture_fd, ec_alive, ec_launched, aec_last,
             pipe_pos, capture >>
nameVars == << extraction >>
waitVars == << onset_wait >>
libVars == << vadVars, wireVars, aecVars, nameVars, waitVars >>
cfgVars == << _aec_enabled, audio_stream, stale_read, libVars >>
identVars == << awaiting_name, current_speaker_name, pending_registration >>
listenVars == << pre_buffer, consecutive_speech, listen_reads, captured >>
turnVars == << final_text, audio_data, speaker_name, awaiting_at_start >>
queueVars == << audio_queue, audio_buffer, stop_asr_event >>
asrVars == << ws, asr_open, asr_final_text, asr_result, send_task, recv_task, audio_task,
              asr_msgs, audio_reads, recv_end, asr_received, on_result_log, asr_sent >>
speakCtl == << speak_kind, interruptible, speak_ret >>
speakBuf == << buffer, played, tts_frames, tts_yielded, barged, barge_checks, sampled >>
ttsConn == << tts_open, tts_sent, response, orphans >>
obsVars == << chat_calls, identify_calls, ai_result, spoken >>

engineVars == << pc, flagVars, _aec_enabled, audio_stream, stale_read, identVars,
                 listenVars, turnVars, queueVars, asrVars, speakCtl, speakBuf, ttsConn,
                 obsVars >>

vars == << pc, flagVars, cfgVars, identVars, listenVars, turnVars, queueVars, asrVars,
           speakCtl, speakBuf, ttsConn, obsVars >>

NoText == <<>>

\* return values of recognize_realtime: None, or a text (possibly empty)
None == [none |-> TRUE, text |-> NoText]

Text(t) == [none |-> FALSE, text |-> t]

\* no _barge_in_check has sampled the microphone since the last playback write
NoSample == [votes |-> 0, total |-> 0, taken |-> FALSE, yielded |-> 0, writes |-> 0]

\* detect_speech_segments has not been called
NoDetect ==
    [ ring_buffer |-> <<>>, triggered |-> FALSE, voiced_frames |-> <<>>,
      speech_count |-> 0, silence_count |-> 0,
      returned |-> "no", voiced_audio |-> [none |-> TRUE, frames |-> <<>>],
      seen |-> <<>>, started_at |-> 0 ]

\* no detector is at work
VadIdle ==
    /\ speech_start_frames = 0 /\ speech_end_frames = 0
    /\ stream_read = <<>> /\ detect = NoDetect

\* nothing to build a frame from
NoFrame ==
    [kind |-> "none", request_id |-> 0, end_window_size |-> 0, audio_data |-> <<>>,
     is_last |-> FALSE, msg_type |-> 0, msg_flags |-> 0]

\* _parse_response has not been called
NotParsed ==
    [kind |-> "none", request_id |-> 0, end_window_size |-> 0, msg_type |-> 0, raw |-> <<>>]

\* no frame is being built or parsed
WireIdle ==
    /\ built_from = NoFrame /\ request_bytes = <<>> /\ resp_data = NotParsed

\* read_capture is not being called
NoCapture ==
    [ status |-> "idle", min_bytes |-> 0, timeout_s |-> 0, elapsed |-> 0, chunks |-> <<>>,
      total |-> 0, from |-> 0, last_read |-> "none", err |-> "none" ]

\* EcEchoCanceller.__init__ of a bridge nobody uses
AecIdle ==
    /\ enabled = FALSE /\ _proc = "None" /\ _playback_fd = "None" /\ _capture_fd = "None"
    /\ ec_alive = 0 /\ ec_launched = 0 /\ aec_last = "none"
    /\ pipe_pos = 0 /\ capture = NoCapture

\* _extract_name is not being called
NameIdle == extraction = [status |-> "idle", text |-> <<>>, name |-> <<>>]

\* _wait_for_speech_start at its first line: nothing read, the count at zero
NoOnsetWait ==
    [ status |-> "idle", reads |-> <<>>, consecutive_speech |-> 0, pre_buffer |-> <<>> ]

\* _wait_for_speech_start is not being followed read by read
WaitIdle == onset_wait = NoOnsetWait

\* VoiceDialogManager.__init__, then run() is entered
EngineInit ==
    /\ pc = "run"
    /\ running = TRUE /\ is_speaking = FALSE /\ is_listening = FALSE
    /\ wait_after_speak = 0
    /\ _aec_enabled \in BOOLEAN
    /\ audio_stream = "none"
    /\ stale_read = FALSE
    /\ awaiting_name = FALSE /\ current_speaker_name = NoName
    /\ pending_registration = FALSE
    /\ audio_queue = <<>> /\ audio_buffer = <<>> /\ stop_asr_event = FALSE
    /\ pre_buffer = <<>> /\ consecutive_speech = 0 /\ listen_reads = 0
    /\ captured = 0 /\ final_text = NoText /\ audio_data = <<>> /\ speaker_name = NoName
    /\ awaiting_at_start = FALSE
    /\ ws = "none" /\ asr_open = 0 /\ asr_final_text = NoText /\ asr_result = None
    /\ send_task = "none" /\ recv_task = "none" /\ audio_task = "none"
    /\ asr_msgs = 0 /\ audio_reads = 0 /\ recv_end = "none" /\ asr_received = <<>>
    /\ speak_kind = "none" /\ interruptible = FALSE /\ speak_ret = "none"
    /\ buffer = <<>> /\ played = <<>>
    /\ tts_open = 0 /\ tts_sent = <<>> /\ response = "none"
    /\ tts_frames = 0 /\ tts_yielded = 0
    /\ orphans = 0 /\ barged = FALSE /\ barge_checks = 0 /\ sampled = NoSample
    /\ on_result_log = <<>> /\ asr_sent = <<>> /\ chat_calls = <<>>
    /\ identify_calls = <<>> /\ ai_result = NoAiResult /\ spoken = <<>>

\* the engine at its start; the detector and the frame codec are libraries it has not
\* set to work
Init == EngineInit /\ VadIdle /\ WireIdle /\ AecIdle /\ NameIdle /\ WaitIdle

\* ------------------------------------------------------- capture stream reads
\* the worker-thread read of a cancelled _send_audio_to_asr returns; nobody takes its chunk.
\* Only the next reader of the stream can tell whether it has returned, so the return is
\* placed where the next read is issued; a blocking read has returned at the latest when
\* two later reads of the same stream have.
StaleReadDone ==
    /\ stale_read
    /\ pc \in { "wait_speech", "barge_in" }
    /\ stale_read' = FALSE
    /\ UNCHANGED << pc, _aec_enabled, libVars, audio_stream >>
    /\ UNCHANGED << flagVars, identVars, listenVars, turnVars, queueVars, asrVars,
                    speakCtl, speakBuf, ttsConn, obsVars >>

\* ------------------------------------------------------------------ _speak
RECURSIVE BufLen(_)
BufLen(b) == IF b = <<>> THEN 0 ELSE Head(b).len + BufLen(Tail(b))

\* the call  await self._speak(text, interruptible)  returning to position ret
CallSpeak(kind, intr, ret) ==
    /\ pc' = "speak"
    /\ speak_kind' = kind
    /\ interruptible' = intr
    /\ speak_ret' = ret

\* _speak entry and the start of synthesize_stream: connect, send StartConnection
SpeakStart ==
    /\ pc = "speak"
    /\ is_speaking' = TRUE
    /\ buffer' = <<>> /\ played' = <<>> /\ barge_checks' = 0 /\ barged' = FALSE
    /\ tts_frames' = 0 /\ tts_yielded' = 0 /\ sampled' = NoSample
    /\ \/ /\ tts_open' = tts_open + 1          \* websockets.connect succeeded
          /\ tts_sent' = <<1>>
          /\ pc' = "tts_conn_ack"
       \/ /\ tts_open' = tts_open              \* connect raised: caught in synthesize_stream
          /\ tts_sent' = <<>>
          /\ pc' = "speak_end"
    /\ response' = "none"
    /\ UNCHANGED << running, is_listening, wait_after_speak, orphans >>
    /\ UNCHANGED << cfgVars, identVars, listenVars, turnVars, queueVars, asrVars,
                    speakCtl, obsVars >>

\* the frames the server can answer StartConnection and StartSession with
ConnAcks == { "ConnectionStarted", "error" }

SessAcks == { "SessionStarted", "error" }

\* wait for the first response (any frame: it is not looked at), then send StartSession
TtsConnAck ==
    /\ pc = "tts_conn_ack"
    /\ \/ /\ response' \in ConnAcks
          /\ tts_sent' = Append(tts_sent, 100)
          /\ pc' = "tts_sess_ack"
          /\ UNCHANGED tts_open
       \/ /\ tts_open' = tts_open - 1          \* timeout / closed: async with exits
          /\ pc' = "speak_end"
          /\ UNCHANGED << tts_sent, response >>
    /\ UNCHANGED orphans
    /\ UNCHANGED << flagVars, cfgVars, identVars, listenVars, turnVars, queueVars, asrVars,
                    speakCtl, speakBuf, obsVars >>

\* wait for the second response (not looked at either), then send TaskRequest and
\* FinishSession
TtsSessAck ==
    /\ pc = "tts_sess_ack"
    /\ \/ /\ response' \in SessAcks
          /\ tts_sent' = tts_sent \o <<200, 102>>
          /\ pc' = "tts_recv"
          /\ UNCHANGED tts_open
       \/ /\ tts_open' = tts_open - 1
          /\ pc' = "speak_end"
          /\ UNCHANGED << tts_sent, response >>
    /\ UNCHANGED orphans
    /\ UNCHANGED << flagVars, cfgVars, identVars, listenVars, turnVars, queueVars, asrVars,
                    speakCtl, speakBuf, obsVars >>

\* the receive loop is left (break): FinishSession is sent again, async with closes ws
TtsLoopExit ==
    /\ tts_sent' = Append(tts_sent, 102)
    /\ tts_open' = tts_open - 1
    /\ response' = "none"
    /\ pc' = "speak_end"
    /\ sampled' = NoSample
    /\ UNCHANGED << buffer, played, tts_yielded, barged, barge_checks, orphans >>

\* one audio chunk is yielded to _speak: buffer it, write when the threshold is reached,
\* and go to the barge-in check after an interruptible write
TtsYield(n) ==
    LET chunk == [id |-> tts_yielded + 1, len |-> n]
        buf == Append(buffer, chunk)
    IN /\ tts_yielded' = tts_yielded + 1
       /\ IF BufLen(buf) >= buffer_threshold
          THEN /\ played' = Append(played, buf)
               /\ buffer' = <<>>
               /\ pc' = IF interruptible /\ _aec_enabled /\ audio_stream = "open"
                        THEN "barge_in" ELSE "tts_recv"
          ELSE /\ buffer' = buf
               /\ UNCHANGED played
               /\ pc' = "tts_recv"
       /\ sampled' = NoSample
       /\ response' = "audio"
       /\ UNCHANGED << tts_open, tts_sent, orphans, barged, barge_checks >>

\* one iteration of the receive loop of synthesize_stream
TtsRecv ==
    /\ pc = "tts_recv"
    /\ \/ \E n \in ChunkSizes :               \* audio response with a payload
            /\ tts_frames < MaxTtsFrames
            /\ tts_frames' = tts_frames + 1
            /\ TtsYield(n)
       \/ /\ tts_frames < MaxTtsFrames        \* empty audio, event 350/351, short frame
          /\ tts_frames' = tts_frames + 1
          /\ sampled' = NoSample
          /\ response' = "other"
          /\ UNCHANGED << pc, buffer, played, tts_yielded, barged, barge_checks,
                          tts_open, tts_sent, orphans >>
       \/ /\ tts_frames < MaxTtsFrames        \* event 152 whose payload json.loads rejects
          /\ tts_frames' = tts_frames + 1     \* (or cut short): caught, the loop goes on
          /\ sampled' = NoSample
          /\ response' = "SessionFinished"
          /\ UNCHANGED << pc, buffer, played, tts_yielded, barged, barge_checks,
                          tts_open, tts_sent, orphans >>
       \/ /\ UNCHANGED tts_frames             \* event 152 with a JSON payload, error frame,
                                               \* timeout, closed
          /\ TtsLoopExit
    /\ UNCHANGED << flagVars, cfgVars, identVars, listenVars, turnVars, queueVars, asrVars,
                    speakCtl, obsVars >>

RECURSIVE CountSpeech(_)
CountSpeech(fs) == IF fs = <<>> THEN 0
                   ELSE (IF Head(fs) THEN 1 ELSE 0) + CountSpeech(Tail(fs))

\* _barge_in_check with the ratio 0.7 in place of 0.6
BargeVote_ratio_70(r1, r2) ==
    LET total == Len(r1) + Len(r2)
        votes == CountSpeech(r1) + CountSpeech(r2)
    IN IF total = 0 THEN FALSE ELSE votes * 10 >= total * 7

\* _barge_in_check on the two capture reads r1, r2: votes / total >= 0.6
BargeVote(r1, r2) ==
    LET total == Len(r1) + Len(r2)
        votes == CountSpeech(r1) + CountSpeech(r2)
    IN IF total = 0 THEN FALSE ELSE votes * 10 >= total * 6

\* _speak after an interruptible write: _barge_in_check, break when it reports speech.
\* The break abandons the synthesize_stream generator suspended at its yield: nothing
\* in _speak closes it, so its connection stays open until the generator is finalized.
BargeIn ==
    /\ pc = "barge_in"
    /\ \E r1 \in FrameVotes, r2 \in FrameVotes :
          /\ barge_checks' = barge_checks + 1
          /\ sampled' = [votes |-> CountSpeech(r1) + CountSpeech(r2),
                         total |-> Len(r1) + Len(r2), taken |-> TRUE,
                         yielded |-> tts_yielded, writes |-> Len(played)]
          /\ IF BargeVote(r1, r2)
             THEN /\ orphans < MaxOrphans
                  /\ barged' = TRUE
                  /\ orphans' = orphans + 1
                  /\ pc' = "speak_end"
             ELSE /\ UNCHANGED << barged, orphans >>
                  /\ pc' = "tts_recv"
    /\ stale_read' = FALSE                     \* two reads later
    /\ UNCHANGED << buffer, played, tts_frames, tts_yielded, tts_open, tts_sent,
                    response >>
    /\ UNCHANGED << flagVars, _aec_enabled, libVars, audio_stream, identVars, listenVars, turnVars,
                    queueVars, asrVars, speakCtl, obsVars >>

\* _speak without the write of the residual buffer after the loop
SpeakEnd_no_flush ==
    /\ pc = "speak_end"
    /\ pc' = "speak_finally"
    /\ UNCHANGED << buffer, played, tts_frames, tts_yielded, barged, barge_checks, sampled >>
    /\ UNCHANGED << flagVars, cfgVars, identVars, listenVars, turnVars, queueVars, asrVars,
                    speakCtl, ttsConn, obsVars >>

\* _speak: the residual buffer is flushed after the loop
SpeakEnd ==
    /\ pc = "speak_end"
    /\ played' = IF buffer # <<>> THEN Append(played, buffer) ELSE played
    /\ pc' = "speak_finally"
    /\ UNCHANGED << buffer, tts_frames, tts_yielded, barged, barge_checks, sampled >>
    /\ UNCHANGED << flagVars, cfgVars, identVars, listenVars, turnVars, queueVars, asrVars,
                    speakCtl, ttsConn, obsVars >>

\* _speak with a finally block that leaves is_speaking set
SpeakFinally_still_speaking ==
    /\ pc = "speak_finally"
    /\ wait_after_speak' = IF _aec_enabled THEN 0 ELSE settle_ticks
    /\ spoken' = Append(spoken, [kind |-> speak_kind, interruptible |-> interruptible,
                                 checked |-> barge_checks > 0, barged |-> barged])
    /\ buffer' = <<>> /\ played' = <<>> /\ tts_frames' = 0 /\ tts_yielded' = 0
    /\ barged' = FALSE /\ barge_checks' = 0 /\ tts_sent' = <<>> /\ sampled' = NoSample
    /\ response' = "none"
    /\ pc' = speak_ret
    /\ speak_kind' = "none" /\ interruptible' = FALSE /\ speak_ret' = "none"
    /\ UNCHANGED << running, is_speaking, is_listening, tts_open, orphans, chat_calls,
                    identify_calls, ai_result >>
    /\ UNCHANGED << cfgVars, identVars, listenVars, turnVars, queueVars, asrVars >>

\* _speak: the finally block, and the return to the caller.  The locals of _speak and of
\* the generator end here.
SpeakFinally ==
    /\ pc = "speak_finally"
    /\ is_speaking' = FALSE
    /\ wait_after_speak' = IF _aec_enabled THEN 0 ELSE settle_ticks
    /\ spoken' = Append(spoken, [kind |-> speak_kind, interruptible |-> interruptible,
                                 checked |-> barge_checks > 0, barged |-> barged])
    /\ buffer' = <<>> /\ played' = <<>> /\ tts_frames' = 0 /\ tts_yielded' = 0
    /\ barged' = FALSE /\ barge_checks' = 0 /\ tts_sent' = <<>> /\ sampled' = NoSample
    /\ response' = "none"
    /\ pc' = speak_ret
    /\ speak_kind' = "none" /\ interruptible' = FALSE /\ speak_ret' = "none"
    /\ UNCHANGED << running, is_listening, tts_open, orphans, chat_calls, identify_calls,
                    ai_result >>
    /\ UNCHANGED << cfgVars, identVars, listenVars, turnVars, queueVars, asrVars >>

\* the event loop finalizes an abandoned generator (aclose): GeneratorExit at the yield
\* leaves the async with block, which closes the connection.  It runs as a task of its
\* own, so only once the engine coroutine has suspended after the break.
AsyncgenFinalize ==
    /\ orphans > 0
    /\ pc \notin { "speak_end", "speak_finally", "handled", "loop" }
    /\ orphans' = orphans - 1
    /\ tts_open' = tts_open - 1
    /\ UNCHANGED << pc, tts_sent, response >>
    /\ UNCHANGED << flagVars, cfgVars, identVars, listenVars, turnVars, queueVars, asrVars,
                    speakCtl, speakBuf, obsVars >>

\* ------------------------------------------------------------ run / _main_loop
\* run: speak the introduction
Run ==
    /\ pc = "run"
    /\ CallSpeak("intro", FALSE, "start_stream")
    /\ UNCHANGED << flagVars, cfgVars, identVars, listenVars, turnVars, queueVars, asrVars,
                    speakBuf, ttsConn, obsVars >>

\* run: audio_device.start_stream(), outside the try block
StartStream ==
    /\ pc = "start_stream"
    /\ \/ /\ audio_stream' = "open"
          /\ pc' = "loop"
       \/ /\ UNCHANGED audio_stream            \* start_stream raised: run() propagates it
          /\ pc' = "crashed"
    /\ UNCHANGED << _aec_enabled, libVars, stale_read >>
    /\ UNCHANGED << flagVars, identVars, listenVars, turnVars, queueVars, asrVars,
                    speakCtl, speakBuf, ttsConn, obsVars >>

\* _main_loop resuming capture at once, whatever is left of the settle delay
MustSettle_never(w) == FALSE

\* _main_loop:  if self.wait_after_speak > 0
MustSettle(w) == w > 0

\* _main_loop: the head of one iteration, up to the call of _wait_for_speech_start
LoopTop ==
    /\ pc = "loop"
    /\ IF ~running
       THEN /\ pc' = "finally"
            /\ UNCHANGED << wait_after_speak, listenVars, awaiting_at_start, obsVars >>
       ELSE IF ~_aec_enabled /\ is_speaking
       THEN /\ UNCHANGED << pc, wait_after_speak, listenVars, awaiting_at_start,
                            obsVars >>
       ELSE IF ~_aec_enabled /\ MustSettle(wait_after_speak)
       THEN /\ wait_after_speak' = wait_after_speak - 1
            /\ UNCHANGED << pc, listenVars, awaiting_at_start, obsVars >>
       ELSE /\ pc' = "wait_speech"
            /\ pre_buffer' = <<>> /\ consecutive_speech' = 0
            /\ listen_reads' = 0 /\ captured' = 0
            /\ UNCHANGED << wait_after_speak, awaiting_at_start, obsVars >>
    /\ UNCHANGED << running, is_speaking, is_listening, final_text, audio_data,
                    speaker_name >>
    /\ UNCHANGED << cfgVars, identVars, queueVars, asrVars, speakCtl, speakBuf, ttsConn >>

\* run: the finally block
Finally ==
    /\ pc = "finally"
    /\ running' = FALSE
    /\ audio_stream' = "closed"                 \* audio_device.stop_stream()
    /\ pc' = "stopped"
    /\ UNCHANGED << is_speaking, is_listening, wait_after_speak, _aec_enabled, libVars, stale_read >>
    /\ UNCHANGED << identVars, listenVars, turnVars, queueVars, asrVars,
                    speakCtl, speakBuf, ttsConn, obsVars >>

\* the pre-roll kept newest first
PreRoll_newest_first(buf, chunk) ==
    LET b == << chunk >> \o buf
    IN IF Len(b) > pre_buffer_max THEN SubSeq(b, 1, pre_buffer_max) ELSE b

\* pre_buffer.append(chunk), dropping the oldest beyond pre_buffer_max
PreRoll(buf, chunk) ==
    LET b == Append(buf, chunk)
    IN IF Len(b) > pre_buffer_max THEN Tail(b) ELSE b

\* _wait_for_speech_start: one iteration (read_and_check in the executor, then the count)
WaitSpeech ==
    /\ pc = "wait_speech"
    /\ running /\ ~is_speaking
    /\ listen_reads < MaxListenReads
    /\ listen_reads' = listen_reads + 1
    /\ \/ /\ consecutive_speech' = 0           \* read raised or returned nothing
          /\ UNCHANGED << pre_buffer, captured, pc >>
       \/ \E speech \in BOOLEAN :
            /\ captured' = captured + 1
            /\ pre_buffer' = PreRoll(pre_buffer, captured + 1)
            /\ IF speech
               THEN /\ consecutive_speech' = consecutive_speech + 1
                    /\ IF consecutive_speech + 1 >= speech_threshold
                       THEN pc' = "recog"
                       ELSE UNCHANGED pc
               ELSE /\ consecutive_speech' = 0
                    /\ UNCHANGED pc
    /\ spoken' = <<>>                          \* the previous turn's playback record ends
    /\ UNCHANGED << final_text, audio_data, speaker_name, awaiting_at_start >>
    /\ stale_read' = IF listen_reads >= 1 THEN FALSE ELSE stale_read
    /\ UNCHANGED << flagVars, _aec_enabled, libVars, audio_stream, identVars, queueVars, asrVars,
                    speakCtl, speakBuf, ttsConn, chat_calls, identify_calls, ai_result >>

\* ------------------------------------------- _realtime_recognize / recognize_realtime
\* _realtime_recognize up to the call of recognize_realtime
RecogInit ==
    /\ pc = "recog"
    /\ audio_queue' = pre_buffer
    /\ audio_buffer' = pre_buffer
    /\ stop_asr_event' = FALSE
    /\ is_listening' = TRUE
    /\ final_text' = NoText
    /\ audio_task' = "run" /\ audio_reads' = 0
    /\ ws' = "none" /\ asr_final_text' = NoText /\ asr_result' = None
    /\ send_task' = "none" /\ recv_task' = "none" /\ asr_msgs' = 0 /\ recv_end' = "none"
    /\ on_result_log' = <<>> /\ asr_sent' = <<>> /\ asr_received' = <<>>
    /\ consecutive_speech' = 0 /\ listen_reads' = 0
    /\ pc' = "asr_connect"
    /\ UNCHANGED << running, is_speaking, wait_after_speak, asr_open, audio_data,
                    speaker_name, awaiting_at_start, captured, pre_buffer >>
    /\ UNCHANGED << cfgVars, identVars, speakCtl, speakBuf, ttsConn, obsVars >>

\* _build_full_request: the configuration frame that opens a session
_build_full_request == [kind |-> "config", chunk |-> 0, is_last |-> FALSE]

\* _build_audio_request: an audio-only frame carrying one chunk (0: no audio)
_build_audio_request(chunk, is_last) ==
    [kind |-> "audio", chunk |-> chunk, is_last |-> is_last]

\* recognize_realtime: websockets.connect and the first (configuration) frame
AsrConnect ==
    /\ pc = "asr_connect"
    /\ \/ /\ ws' = "open"
          /\ asr_open' = asr_open + 1
          /\ asr_sent' = << _build_full_request >>
          /\ pc' = "asr_ack"
          /\ UNCHANGED << asr_result, recv_end >>
       \/ /\ asr_result' = None                \* connect raised: ws is None, nothing to close
          /\ recv_end' = "connect_failed"
          /\ pc' = "recog_finish"
          /\ UNCHANGED << ws, asr_open, asr_sent >>
    /\ UNCHANGED << asr_final_text, send_task, recv_task, audio_task, asr_msgs, audio_reads,
                    asr_received, on_result_log >>
    /\ UNCHANGED << flagVars, cfgVars, identVars, listenVars, turnVars, queueVars,
                    speakCtl, speakBuf, ttsConn, obsVars >>

\* recognize_realtime: wait (10 s) for the first server message, then start both tasks
AsrAck ==
    /\ pc = "asr_ack"
    /\ \/ /\ send_task' = "waitq"             \* send_audio runs first, up to its queue wait
          /\ recv_task' = "recv"
          /\ pc' = "asr_await_recv"
          /\ UNCHANGED << asr_result, recv_end >>
       \/ \E e \in { "ack_timeout", "ack_error", "ack_closed" } :
            /\ asr_result' = None
            /\ recv_end' = e
            /\ pc' = "asr_finally"
            /\ UNCHANGED << send_task, recv_task >>
    /\ UNCHANGED << ws, asr_open, asr_final_text, audio_task, asr_msgs, audio_reads,
                    asr_received, on_result_log, asr_sent >>
    /\ UNCHANGED << flagVars, cfgVars, identVars, listenVars, turnVars, queueVars,
                    speakCtl, speakBuf, ttsConn, obsVars >>

\* send_audio: the wait on the queue times out and the while condition finds the stop
\* event set; after the loop the final empty frame with the last flag is sent (that send
\* may or may not suspend)
SendLoopCheck ==
    /\ pc = "asr_await_recv"
    /\ send_task = "waitq"
    /\ stop_asr_event
    /\ asr_sent' = Append(asr_sent, _build_audio_request(0, TRUE))
    /\ send_task' \in { "final_send", "done" }
    /\ UNCHANGED << pc, ws, asr_open, asr_final_text, asr_result, recv_task, audio_task,
                    asr_msgs, audio_reads, recv_end, asr_received, on_result_log >>
    /\ UNCHANGED << flagVars, cfgVars, identVars, listenVars, turnVars, queueVars,
                    speakCtl, speakBuf, ttsConn, obsVars >>

\* send_audio: audio_queue.get() delivers a chunk, which is sent as an audio-only frame;
\* then the while condition again
SendGet ==
    /\ pc = "asr_await_recv"
    /\ send_task = "waitq"
    /\ audio_queue # <<>>
    /\ audio_queue' = Tail(audio_queue)
    /\ IF recv_end = "closed"
       THEN /\ send_task' = "done"             \* ws.send raises: break, final send fails too
            /\ UNCHANGED asr_sent
       ELSE IF stop_asr_event
       THEN /\ asr_sent' = asr_sent \o << _build_audio_request(Head(audio_queue), FALSE),
                                        _build_audio_request(0, TRUE) >>
            /\ send_task' \in { "final_send", "done" }
       ELSE /\ asr_sent' = Append(asr_sent, _build_audio_request(Head(audio_queue), FALSE))
            /\ UNCHANGED send_task
    /\ UNCHANGED << pc, audio_buffer, stop_asr_event, ws, asr_open, asr_final_text,
                    asr_result, recv_task, audio_task, asr_msgs, audio_reads, recv_end,
                    asr_received, on_result_log >>
    /\ UNCHANGED << flagVars, cfgVars, identVars, listenVars, turnVars,
                    speakCtl, speakBuf, ttsConn, obsVars >>

\* send_audio: the suspended send of the final frame completes
SendFinalDone ==
    /\ pc = "asr_await_recv"
    /\ send_task = "final_send"
    /\ send_task' = "done"
    /\ UNCHANGED << pc, ws, asr_open, asr_final_text, asr_result, recv_task, audio_task,
                    asr_msgs, audio_reads, recv_end, asr_received, on_result_log, asr_sent >>
    /\ UNCHANGED << flagVars, cfgVars, identVars, listenVars, turnVars, queueVars,
                    speakCtl, speakBuf, ttsConn, obsVars >>

\* _extract_result: no result for an empty text, otherwise the corrected text and the
\* definite flag
_extract_result(raw, definite) ==
    IF raw = NoText THEN [some |-> FALSE, text |-> NoText, is_final |-> FALSE]
    ELSE [some |-> TRUE, text |-> _post_correct(raw), is_final |-> definite]

\* receive_results with  final_text = result.text  done for definite results only
LatestText_definite_only(prev, result) == IF result.is_final THEN result.text ELSE prev

\* receive_results:  final_text = result.text , for every decoded result
LatestText(prev, result) == result.text

\* receive_results with on_result called for definite results only
Deliver_definite_only(log, result) ==
    IF result.is_final THEN Append(log, [text |-> result.text, is_final |-> TRUE]) ELSE log

\* receive_results:  on_result(result)
Deliver(log, result) == Append(log, [text |-> result.text, is_final |-> result.is_final])

\* receive_results: one server message is received, decoded and delivered
RecvMessage ==
    /\ pc = "asr_await_recv"
    /\ recv_task = "recv"
    /\ asr_msgs < MaxAsrMsgs
    /\ asr_msgs' = asr_msgs + 1
    /\ \E msg \in ServerMessages :
         LET result == _extract_result(msg.raw, msg.definite)
         IN /\ asr_received' = Append(asr_received, msg)
            /\ IF result.some
               THEN /\ asr_final_text' = LatestText(asr_final_text, result)
                    /\ on_result_log' = Deliver(on_result_log, result)
                    /\ final_text' = IF result.is_final THEN result.text ELSE final_text
                    /\ IF result.is_final
                       THEN /\ stop_asr_event' = TRUE
                            /\ recv_task' = "done"
                            /\ recv_end' = "final"
                       ELSE UNCHANGED << stop_asr_event, recv_task, recv_end >>
               ELSE UNCHANGED << asr_final_text, on_result_log, final_text, stop_asr_event,
                                 recv_task, recv_end >>
    /\ UNCHANGED << pc, audio_queue, audio_buffer, ws, asr_open, asr_result, send_task,
                    audio_task, audio_reads, asr_sent, audio_data, speaker_name,
                    awaiting_at_start >>
    /\ UNCHANGED << flagVars, cfgVars, identVars, listenVars,
                    speakCtl, speakBuf, ttsConn, obsVars >>

\* receive_results awaiting ws.recv() without wait_for: the wait never ends by itself
RecvTimeout_unbounded_wait ==
    /\ pc = "asr_await_recv"
    /\ recv_task = "recv"
    /\ FALSE
    /\ UNCHANGED vars

\* receive_results: no message within 15 s
RecvTimeout ==
    /\ pc = "asr_await_recv"
    /\ recv_task = "recv"
    /\ stop_asr_event' = TRUE
    /\ recv_task' = "done"
    /\ recv_end' = "timeout"
    /\ UNCHANGED << pc, audio_queue, audio_buffer, ws, asr_open, asr_final_text, asr_result,
                    send_task, audio_task, asr_msgs, audio_reads, asr_received,
                    on_result_log, asr_sent >>
    /\ UNCHANGED << flagVars, cfgVars, identVars, listenVars, turnVars,
                    speakCtl, speakBuf, ttsConn, obsVars >>

\* receive_results: ConnectionClosed, or any other exception while receiving
RecvClosed ==
    /\ pc = "asr_await_recv"
    /\ recv_task = "recv"
    /\ recv_task' = "done"
    /\ recv_end' \in { "closed", "error" }
    /\ UNCHANGED << pc, ws, asr_open, asr_final_text, asr_result,
                    send_task, audio_task, asr_msgs, audio_reads, asr_received,
                    on_result_log, asr_sent >>
    /\ UNCHANGED << flagVars, cfgVars, identVars, listenVars, turnVars, queueVars,
                    speakCtl, speakBuf, ttsConn, obsVars >>

\* _send_audio_to_asr: one iteration (capture read in the executor, buffer, enqueue),
\* or the end of its loop once the stop event is set
AudioTask ==
    /\ pc \in { "asr_connect", "asr_ack", "asr_await_recv", "asr_finally" }
    /\ audio_task = "run"
    /\ IF stop_asr_event \/ ~running
       THEN /\ audio_task' = "done"
            /\ UNCHANGED << audio_reads, captured, audio_buffer, audio_queue >>
       ELSE /\ audio_reads < MaxAudioReads
            /\ audio_reads' = audio_reads + 1
            /\ UNCHANGED audio_task
            /\ \/ /\ captured' = captured + 1
                  /\ IF ~is_speaking
                     THEN /\ audio_buffer' = Append(audio_buffer, captured + 1)
                          /\ audio_queue' = Append(audio_queue, captured + 1)
                     ELSE UNCHANGED << audio_buffer, audio_queue >>
               \/ UNCHANGED << captured, audio_buffer, audio_queue >>   \* read failed
    /\ UNCHANGED << pc, stop_asr_event, ws, asr_open, asr_final_text, asr_result, send_task,
                    recv_task, asr_msgs, recv_end, asr_received, on_result_log, asr_sent,
                    pre_buffer, consecutive_speech, listen_reads >>
    /\ UNCHANGED << flagVars, cfgVars, identVars, turnVars,
                    speakCtl, speakBuf, ttsConn, obsVars >>

\* send_task.cancel() and await send_task: a task suspended in the loop is cancelled
\* (CancelledError is not an Exception); one suspended in the final send swallows the
\* cancellation in its bare except and ends normally
CancelSend(t) ==
    IF t = "waitq" THEN "cancelled"
    ELSE IF t = "final_send" THEN "done"
    ELSE t

\* recognize_realtime: await recv_task returned; cancel the send task
AsrAwaitRecv ==
    /\ pc = "asr_await_recv"
    /\ recv_task = "done"
    /\ send_task' = CancelSend(send_task)
    /\ asr_result' = Text(asr_final_text)
    /\ pc' = "asr_finally"
    /\ UNCHANGED << ws, asr_open, asr_final_text, recv_task, audio_task, asr_msgs,
                    audio_reads, recv_end, asr_received, on_result_log, asr_sent >>
    /\ UNCHANGED << flagVars, cfgVars, identVars, listenVars, turnVars, queueVars,
                    speakCtl, speakBuf, ttsConn, obsVars >>

\* recognize_realtime returning without the finally block
AsrFinally_no_close ==
    /\ pc = "asr_finally"
    /\ pc' = "recog_finish"
    /\ UNCHANGED << flagVars, cfgVars, identVars, listenVars, turnVars, queueVars, asrVars,
                    speakCtl, speakBuf, ttsConn, obsVars >>

\* recognize_realtime: the finally block closes the connection, then the value is returned
AsrFinally ==
    /\ pc = "asr_finally"
    /\ ws' = "closed"
    /\ asr_open' = asr_open - 1
    /\ pc' = "recog_finish"
    /\ UNCHANGED << asr_final_text, asr_result, send_task, recv_task, audio_task, asr_msgs,
                    audio_reads, recv_end, asr_received, on_result_log, asr_sent >>
    /\ UNCHANGED << flagVars, cfgVars, identVars, listenVars, turnVars, queueVars,
                    speakCtl, speakBuf, ttsConn, obsVars >>

\* _main_loop without the test  if not final_text: continue
AfterRecognize_always_handle(text) == "handle_speech"

\* _main_loop:  if not final_text: continue , else _handle_speech
AfterRecognize(text) == IF text = NoText THEN "discard" ELSE "handle_speech"

\* _realtime_recognize handing over only the chunk read last
JoinedBuffer_newest_only(buf) == IF buf = <<>> THEN buf ELSE << buf[Len(buf)] >>

\* _realtime_recognize:  b''.join(self.audio_buffer) if self.audio_buffer else b''
JoinedBuffer(buf) == buf

\* _realtime_recognize after recognize_realtime returned, and the test of final_text in
\* _main_loop
RecogFinish ==
    /\ pc = "recog_finish"
    /\ final_text' = IF asr_result.text # NoText THEN asr_result.text ELSE final_text
    /\ stop_asr_event' = TRUE
    /\ IF audio_task = "run"                   \* cancelled in its executor read, or not
       THEN stale_read' \in { stale_read, TRUE }
       ELSE UNCHANGED stale_read
    /\ is_listening' = FALSE
    /\ audio_data' = JoinedBuffer(audio_buffer)
    /\ pc' = AfterRecognize(final_text')
    \* the tasks and the locals of recognize_realtime have ended; the queue, the audio
    \* buffer and the capture numbering are set up again by the next _realtime_recognize
    /\ audio_task' = "none" /\ send_task' = "none" /\ recv_task' = "none"
    /\ ws' = "none" /\ asr_final_text' = NoText /\ asr_result' = None
    /\ asr_msgs' = 0 /\ audio_reads' = 0 /\ captured' = 0
    /\ asr_sent' = <<>> /\ asr_received' = <<>>
    /\ audio_queue' = <<>> /\ audio_buffer' = <<>> /\ pre_buffer' = <<>>
    /\ UNCHANGED << running, is_speaking, wait_after_speak, speaker_name, awaiting_at_start,
                    asr_open, recv_end, on_result_log, consecutive_speech, listen_reads >>
    /\ UNCHANGED << _aec_enabled, libVars, audio_stream, identVars, speakCtl,
                    speakBuf, ttsConn, obsVars >>

\* what _main_loop still holds of the finished recognizer session ends with the turn
EndSession ==
    /\ recv_end' = "none" /\ on_result_log' = <<>> /\ audio_data' = <<>>
    /\ UNCHANGED << audio_task, send_task, recv_task, ws, asr_final_text, asr_result,
                    asr_msgs, audio_reads, asr_sent, asr_received, audio_queue,
                    audio_buffer, asr_open, stop_asr_event, listenVars >>

\* _main_loop: nothing was recognized, continue
Discard ==
    /\ pc = "discard"
    /\ pc' = "loop"
    /\ EndSession
    /\ UNCHANGED << final_text, speaker_name, awaiting_at_start >>
    /\ UNCHANGED << flagVars, cfgVars, identVars, speakCtl, speakBuf, ttsConn, obsVars >>

\* ------------------------------------------------------------- _handle_speech
\* _ask_for_name with the prompt spoken interruptibly
_ask_for_name_interruptible ==
    /\ awaiting_name' = TRUE
    /\ CallSpeak("ask_name", TRUE, "after_identify")

\* _ask_for_name: set awaiting_name and speak the name-elicitation prompt
_ask_for_name ==
    /\ awaiting_name' = TRUE
    /\ CallSpeak("ask_name", FALSE, "after_identify")

\* _handle_speech without the test of awaiting_name at its entry
TakesNamePath_never(awaiting) == FALSE

\* _handle_speech:  if self.awaiting_name: _handle_name_response(...); return
TakesNamePath(awaiting) == awaiting

\* _handle_speech entry: the name-registration branch, else _identify_speaker.  The engine
\* is modelled with a speaker identifier configured (speaker_id is not None).
HandleSpeech ==
    /\ pc = "handle_speech"
    /\ awaiting_at_start' = awaiting_name
    /\ IF TakesNamePath(awaiting_name)
       THEN /\ pc' = "name_response"
            /\ UNCHANGED << speaker_name, identVars, identify_calls, speakCtl >>
       ELSE IF audio_data = <<>>
       THEN /\ speaker_name' = current_speaker_name
            /\ pc' = "after_identify"
            /\ UNCHANGED << identVars, identify_calls, speakCtl >>
       ELSE \/ \E n \in KnownNames :           \* identified, embedding updated
                 /\ identify_calls' = Append(identify_calls, "known")
                 /\ current_speaker_name' = n
                 /\ speaker_name' = n
                 /\ pc' = "after_identify"
                 /\ UNCHANGED << awaiting_name, pending_registration, speakCtl >>
            \/ /\ identify_calls' = Append(identify_calls, "stranger")
               /\ pending_registration' = TRUE     \* no identity, but an embedding:
               /\ _ask_for_name                    \* set_pending_registration
               /\ speaker_name' = NoName
               /\ UNCHANGED current_speaker_name
            \/ /\ identify_calls' = Append(identify_calls, "nothing")
               /\ speaker_name' = current_speaker_name   \* no identity, no embedding
               /\ pc' = "after_identify"
               /\ UNCHANGED << identVars, speakCtl >>
            \/ /\ identify_calls' = Append(identify_calls, "raised")
               /\ pc' = "caught"              \* identify raised
               /\ UNCHANGED << speaker_name, identVars, speakCtl >>
    /\ EndSession
    /\ UNCHANGED << final_text, chat_calls, ai_result, spoken >>
    /\ UNCHANGED << flagVars, cfgVars, speakBuf, ttsConn >>

\* _handle_speech with brain.chat given the transcript in the exit branch too
ChatRequest_transcript(text) == text

\* _handle_speech: the text handed to brain.chat, "zai jian" in the exit branch and the
\* transcript otherwise
ChatRequest(text) == IF HasExitKeyword(text) THEN farewell_cue ELSE text

\* _handle_speech after _identify_speaker: return if a name was asked for; otherwise the
\* exit keywords, then brain.chat and _speak
AfterIdentify ==
    /\ pc = "after_identify"
    /\ IF awaiting_name
       THEN /\ pc' = "handled"
            /\ UNCHANGED << chat_calls, speakCtl >>
       ELSE IF HasExitKeyword(final_text)
       THEN /\ chat_calls' = Append(chat_calls, [text |-> ChatRequest(final_text),
                                                 speaker |-> speaker_name])
            /\ \/ CallSpeak("farewell", FALSE, "exit_done")
               \/ pc' = "caught" /\ UNCHANGED speakCtl      \* brain.chat raised
       ELSE /\ chat_calls' = Append(chat_calls, [text |-> ChatRequest(final_text),
                                                 speaker |-> speaker_name])
            /\ \/ CallSpeak("reply", TRUE, "handled")
               \/ pc' = "caught" /\ UNCHANGED speakCtl
    /\ UNCHANGED << identify_calls, ai_result, spoken >>
    /\ UNCHANGED << flagVars, cfgVars, identVars, listenVars, turnVars, queueVars, asrVars,
                    speakBuf, ttsConn >>

\* _handle_speech returning after the farewell without  self.running = False
ExitDone_still_running ==
    /\ pc = "exit_done"
    /\ pc' = "handled"
    /\ UNCHANGED << flagVars, cfgVars, identVars, listenVars, turnVars, queueVars, asrVars,
                    speakCtl, speakBuf, ttsConn, obsVars >>

\* _handle_speech: self.running = False after the farewell
ExitDone ==
    /\ pc = "exit_done"
    /\ running' = FALSE
    /\ pc' = "handled"
    /\ UNCHANGED << is_speaking, is_listening, wait_after_speak >>
    /\ UNCHANGED << cfgVars, identVars, listenVars, turnVars, queueVars, asrVars,
                    speakCtl, speakBuf, ttsConn, obsVars >>

\* _main_loop without its except clause: an exception of the turn leaves the while loop
\* and reaches the finally block of run().
LoopAfter_no_except(p) == IF p = "caught" THEN "finally" ELSE "loop"

\* _main_loop: the body of the while loop is one try statement whose except clause only
\* prints, so the loop iterates after a handled turn and after a caught exception alike.
LoopAfter(p) == "loop"

\* _main_loop: _handle_speech returned, or the except clause caught an exception.  The
\* locals of the turn end here.
TurnEnd ==
    /\ pc \in { "handled", "caught" }
    /\ pc' = LoopAfter(pc)
    /\ final_text' = NoText /\ speaker_name' = NoName /\ awaiting_at_start' = FALSE
    /\ chat_calls' = <<>> /\ identify_calls' = <<>> /\ ai_result' = NoAiResult
    /\ UNCHANGED << audio_data, spoken >>
    /\ UNCHANGED << flagVars, cfgVars, identVars, listenVars, queueVars, asrVars,
                    speakCtl, speakBuf, ttsConn >>

\* _handle_name_response, name given: register the pending embedding under the name and
\* welcome the speaker; without a pending embedding only awaiting_name is cleared
NameGiven(name) ==
    IF pending_registration
    THEN /\ pending_registration' = FALSE          \* complete_registration
         /\ current_speaker_name' = name
         /\ awaiting_name' = FALSE
         /\ CallSpeak("welcome", FALSE, "handled")
    ELSE /\ awaiting_name' = FALSE
         /\ pc' = "handled"
         /\ UNCHANGED << current_speaker_name, pending_registration, speakCtl >>

\* _handle_name_response, skip, without the call of cancel_registration
SkipRegistration_keep_pending ==
    /\ awaiting_name' = FALSE
    /\ CallSpeak("skip_reply", FALSE, "handled")
    /\ UNCHANGED << current_speaker_name, pending_registration >>

\* _handle_name_response, skip: cancel_registration and a short reply
SkipRegistration ==
    /\ awaiting_name' = FALSE
    /\ pending_registration' = FALSE
    /\ CallSpeak("skip_reply", FALSE, "handled")
    /\ UNCHANGED current_speaker_name

\* _handle_name_response giving up the elicitation when it speaks a prompt again
KeepAsking_give_up(kind, ret) ==
    /\ CallSpeak(kind, FALSE, ret)
    /\ awaiting_name' = FALSE
    /\ UNCHANGED << current_speaker_name, pending_registration >>

\* _handle_name_response, unrelated statement or no name: speak, leaving awaiting_name and
\* the pending registration as they are
KeepAsking(kind, ret) ==
    /\ CallSpeak(kind, FALSE, ret)
    /\ UNCHANGED identVars

\* _handle_name_response: _extract_name first; only when it finds no name, the
\* classification by _ai_understand_name (a name, a skip, an unrelated statement with or
\* without a reply, or nothing)
NameResponse ==
    /\ pc = "name_response"
    /\ LET name == _extract_name(final_text)
       IN IF name # NoName
          THEN /\ NameGiven(name)
               /\ UNCHANGED ai_result
          ELSE \E result \in AiResults :
                 /\ ai_result' = result
                 /\ IF result.kind = "is_name"
                    THEN IF result.name # NoName
                         THEN NameGiven(result.name)
                         ELSE KeepAsking("retry", "handled")
                    ELSE IF result.kind = "skip"
                    THEN SkipRegistration
                    ELSE IF result.kind = "other_intent"
                    THEN IF result.reply
                         THEN KeepAsking("other_reply", "name_reask")
                         ELSE KeepAsking("reask", "handled")
                    ELSE KeepAsking("retry", "handled")
    /\ UNCHANGED << chat_calls, identify_calls, spoken >>
    /\ UNCHANGED << flagVars, cfgVars, listenVars, turnVars, queueVars, asrVars,
                    speakBuf, ttsConn >>

\* _handle_name_response: after the reply to an unrelated statement, ask again
NameReask ==
    /\ pc = "name_reask"
    /\ KeepAsking("reask", "handled")
    /\ UNCHANGED << flagVars, cfgVars, listenVars, turnVars, queueVars, asrVars,
                    speakBuf, ttsConn, obsVars >>

Next ==
    \/ Run \/ StartStream \/ LoopTop \/ Finally \/ WaitSpeech
    \/ RecogInit \/ AsrConnect \/ AsrAck
    \/ SendLoopCheck \/ SendGet \/ SendFinalDone
    \/ RecvMessage \/ RecvTimeout \/ RecvClosed \/ AudioTask
    \/ AsrAwaitRecv \/ AsrFinally \/ RecogFinish \/ Discard
    \/ HandleSpeech \/ AfterIdentify \/ ExitDone \/ TurnEnd \/ NameResponse \/ NameReask
    \/ SpeakStart \/ TtsConnAck \/ TtsSessAck \/ TtsRecv \/ BargeIn \/ SpeakEnd \/ SpeakFinally
    \/ AsyncgenFinalize \/ StaleReadDone

Spec == Init /\ [][Next]_vars

\* The steps the program takes by itself: the event loop runs every task that is ready and
\* fires every timer (wait_for on each ws.recv and on audio_queue.get), the executor
\* returns every capture read.  What the recognizer server may or may not do (send one
\* more message, close the connection) is left out.
ProgramStep ==
    \/ Run \/ StartStream \/ LoopTop \/ Finally \/ WaitSpeech
    \/ RecogInit \/ AsrConnect \/ AsrAck
    \/ SendLoopCheck \/ SendGet \/ SendFinalDone
    \/ RecvTimeout \/ AudioTask
    \/ AsrAwaitRecv \/ AsrFinally \/ RecogFinish \/ Discard
    \/ HandleSpeech \/ AfterIdentify \/ ExitDone \/ TurnEnd \/ NameResponse \/ NameReask
    \/ SpeakStart \/ TtsConnAck \/ TtsSessAck \/ TtsRecv \/ BargeIn \/ SpeakEnd \/ SpeakFinally
    \/ AsyncgenFinalize \/ StaleReadDone

\* the engine under the scheduling of the asyncio event loop
FairSpec == Spec /\ WF_vars(ProgramStep)

TypeOK ==
    /\ running \in BOOLEAN /\ is_speaking \in BOOLEAN /\ is_listening \in BOOLEAN
    /\ wait_after_speak \in 0..settle_ticks
    /\ tts_open \in Nat /\ asr_open \in Nat /\ orphans \in Nat

\* ------------------------------------------------------------ VADDetector
\* VADDetector.__init__:  frame_size = int(sample_rate * frame_duration_ms / 1000) * 2,
\* bytes of one 30 ms frame at 16 kHz
frame_size == 960

\* largest thresholds and longest stream explored
MaxStartFrames == 2
MaxEndFrames == 2
MaxChunks == 5

\* byte lengths of the chunks a capture stream yields: one frame (chunk_size 480 samples),
\* two frames, and a frame followed by 40 more bytes
ChunkLens == { 960, 1920, 1000 }

Min(a, b) == IF a < b THEN a ELSE b

\* audio_chunk[lo:hi]: the bytes lo..hi-1 of a chunk (a slice ends where the chunk ends)
Slice(chunk, lo, hi) ==
    [ id |-> chunk.id, lo |-> Min(lo, chunk.len), hi |-> Min(hi, chunk.len),
      voiced |-> chunk.voiced ]

\* len(frame)
FrameLen(f) == f.hi - f.lo

\* webrtcvad on a frame of exactly frame_size bytes, zeros of them being padding: speech
\* if the sound is voiced and fills more than half of the frame
WebrtcVad(f, zeros) == f.voiced /\ 2 * zeros < frame_size

\* is_speech: the chunk is padded with zero bytes or cut to frame_size, then classified
is_speech(f) ==
    IF FrameLen(f) < frame_size
    THEN WebrtcVad(f, frame_size - FrameLen(f))
    ELSE WebrtcVad([f EXCEPT !.hi = f.lo + frame_size], 0)

\* collections.deque(maxlen = speech_end_frames).append
RingAppend(ring, x) ==
    LET all == Append(ring, x)
    IN IF Len(all) > speech_end_frames
       THEN SubSeq(all, Len(all) - speech_end_frames + 1, Len(all))
       ELSE all

\* the frames of a sequence of (frame, is_speech) pairs
RECURSIVE FramesOf(_)
FramesOf(pairs) ==
    IF pairs = <<>> THEN <<>> ELSE << Head(pairs).frame >> \o FramesOf(Tail(pairs))

\* frames[:-n]
DropLast(frames, n) ==
    IF n = 0 \/ n >= Len(frames) THEN <<>> ELSE SubSeq(frames, 1, Len(frames) - n)

\* detect_speech_segments returning every recorded frame, the closing silence included
Trimmed_keep_silence(frames) == frames

\* detect_speech_segments:  voiced_frames[:-self.speech_end_frames]
Trimmed(frames) == DropLast(frames, speech_end_frames)

\* b''.join(frames), and None in place of empty audio
Joined(frames) == [none |-> frames = <<>>, frames |-> frames]

\* detect_speech_segments: the body of the inner loop for one frame
DetectFrame(d, frame) ==
    IF d.returned # "no" \/ FrameLen(frame) < frame_size THEN d
    ELSE
    LET sp == is_speech(frame)
        seen1 == Append(d.seen, [frame |-> frame, is_speech |-> sp])
        ring1 == RingAppend(d.ring_buffer, [frame |-> frame, is_speech |-> sp])
        speech1 == IF sp THEN d.speech_count + 1 ELSE 0
        silence1 == IF sp THEN 0 ELSE d.silence_count + 1
    IN IF ~d.triggered
       THEN IF speech1 >= speech_start_frames
            THEN [d EXCEPT !.triggered = TRUE,
                           !.voiced_frames = d.voiced_frames \o FramesOf(ring1),
                           !.ring_buffer = <<>>,
                           !.speech_count = 0, !.silence_count = 0,
                           !.seen = seen1, !.started_at = Len(seen1)]
            ELSE [d EXCEPT !.ring_buffer = ring1,
                           !.speech_count = speech1, !.silence_count = silence1,
                           !.seen = seen1]
       ELSE LET voiced1 == Append(d.voiced_frames, frame)
            IN IF silence1 >= speech_end_frames
               THEN [d EXCEPT !.voiced_frames = voiced1, !.ring_buffer = ring1,
                              !.speech_count = speech1, !.silence_count = silence1,
                              !.seen = seen1,
                              !.returned = "silence",
                              !.voiced_audio = Joined(Trimmed(voiced1))]
               ELSE [d EXCEPT !.voiced_frames = voiced1, !.ring_buffer = ring1,
                              !.speech_count = speech1, !.silence_count = silence1,
                              !.seen = seen1]

\* detect_speech_segments: the inner loop, frames i .. num_frames-1 of one chunk
RECURSIVE DetectFrames(_, _, _, _)
DetectFrames(d, chunk, i, num_frames) ==
    IF i >= num_frames THEN d
    ELSE DetectFrames(DetectFrame(d, Slice(chunk, i * frame_size, (i + 1) * frame_size)),
                      chunk, i + 1, num_frames)

\* a detector is configured (main_voice.py sets both thresholds from the configuration)
\* and detect_speech_segments is called on a capture stream
VadInit ==
    /\ EngineInit /\ WireIdle /\ AecIdle /\ NameIdle /\ WaitIdle
    /\ speech_start_frames \in 1..MaxStartFrames
    /\ speech_end_frames \in 1..MaxEndFrames
    /\ stream_read = <<>> /\ detect = NoDetect

\* detect_speech_segments: one iteration of  for audio_chunk in audio_stream
DetectChunk ==
    /\ detect.returned = "no"
    /\ Len(stream_read) < MaxChunks
    /\ \E len \in ChunkLens, voiced \in BOOLEAN :
         LET audio_chunk == [id |-> Len(stream_read) + 1, len |-> len, voiced |-> voiced]
         IN /\ stream_read' = Append(stream_read, audio_chunk)
            /\ detect' = DetectFrames(detect, audio_chunk, 0, len \div frame_size)
    /\ UNCHANGED << speech_start_frames, speech_end_frames, wireVars, aecVars, nameVars, waitVars, engineVars >>

\* detect_speech_segments: the stream is exhausted
StreamEnd ==
    /\ detect.returned = "no"
    /\ detect' = [detect EXCEPT
                    !.returned = "exhausted",
                    !.voiced_audio = IF detect.triggered /\ detect.voiced_frames # <<>>
                                     THEN Joined(detect.voiced_frames)
                                     ELSE Joined(<<>>)]
    /\ UNCHANGED << speech_start_frames, speech_end_frames, stream_read, wireVars,
                    aecVars, nameVars, waitVars, engineVars >>

VadNext == DetectChunk \/ StreamEnd

VadSpec == VadInit /\ [][VadNext]_vars

\* ------------------------------------------------------------ VolcengineASR frames
\* longest audio payload explored (bytes)
MaxAudioLen == 3

\* byte values an audio payload is made of: 22 is the byte gzip_compress turns into "{"
AudioBytes == { 0, 22, 255 }

\* request ids and end_window_size values of a configuration frame
RequestIds == { 7, 42 }
WindowSizes == { 500, 800 }

\* message types of the frames a server sends: FULL_SERVER_RESPONSE and SERVER_ACK
ServerMsgTypes == { 9, 11 }

\* message flags of a server frame
ServerMsgFlags == { 0, 1, 3 }

\* what a frame is built from: a configuration, an audio payload, or (by the server) a
\* message type, flags and a payload that is neither JSON nor gzip
FrameInputs ==
    { [kind |-> "full", request_id |-> r, end_window_size |-> w, audio_data |-> <<>>,
       is_last |-> FALSE, msg_type |-> 1, msg_flags |-> 0] :
         r \in RequestIds, w \in WindowSizes }
    \cup { [kind |-> "audio", request_id |-> 0, end_window_size |-> 0, audio_data |-> a,
            is_last |-> l, msg_type |-> 2, msg_flags |-> IF l THEN 2 ELSE 0] :
              a \in UNION { [1..n -> AudioBytes] : n \in 0..MaxAudioLen }, l \in BOOLEAN }
    \cup { [kind |-> "server", request_id |-> 0, end_window_size |-> 0, audio_data |-> a,
            is_last |-> FALSE, msg_type |-> t, msg_flags |-> f] :
              a \in UNION { [1..n -> AudioBytes] : n \in 1..MaxAudioLen },
              t \in ServerMsgTypes, f \in ServerMsgFlags }

\* str(n).encode(): the decimal digits of n in ASCII
RECURSIVE Digits(_)
Digits(n) == IF n < 10 THEN << 48 + n >> ELSE Digits(n \div 10) \o << 48 + (n % 10) >>

\* int(text) for a run of ASCII digits
RECURSIVE Number(_)
Number(text) ==
    IF text = <<>> THEN 0
    ELSE 10 * Number(SubSeq(text, 1, Len(text) - 1)) + (text[Len(text)] - 48)

IsDigits(text) == text # <<>> /\ \A i \in DOMAIN text : text[i] \in 48..57

\* json.dumps(payload).encode('utf-8'):  {"uid":<request_id>,"end_window_size":<n>}, with
\* the quoted keys left out
json_dumps(payload) ==
    << 123 >> \o Digits(payload.request_id) \o << 44 >>
              \o Digits(payload.end_window_size) \o << 125 >>

\* the position of the first byte b in data, 0 if there is none (1-based)
Find(data, b) ==
    IF \E i \in DOMAIN data : data[i] = b
    THEN CHOOSE i \in DOMAIN data : data[i] = b /\ \A j \in 1..(i - 1) : data[j] # b
    ELSE 0

\* json.loads: the object back, or a failure (ValueError)
json_loads(text) ==
    LET comma == Find(text, 44)
        first == SubSeq(text, 2, comma - 1)
        second == SubSeq(text, comma + 1, Len(text) - 1)
    IN IF /\ Len(text) >= 5 /\ text[1] = 123 /\ text[Len(text)] = 125
          /\ comma > 2 /\ comma < Len(text) - 1
          /\ IsDigits(first) /\ IsDigits(second)
       THEN [ok |-> TRUE, request_id |-> Number(first), end_window_size |-> Number(second)]
       ELSE [ok |-> FALSE, request_id |-> 0, end_window_size |-> 0]

\* sum of the bytes, modulo 256 (the check value of the gzip trailer)
RECURSIVE Checksum(_)
Checksum(data) == IF data = <<>> THEN 0 ELSE (Head(data) + Checksum(Tail(data))) % 256

\* gzip.compress: the magic number 1f 8b 08, the body re-coded byte by byte, and a trailer
\* with the check value and the length of the input
gzip_compress(data) ==
    << 31, 139, 8 >> \o [i \in DOMAIN data |-> (data[i] + 101) % 256]
                     \o << Checksum(data), Len(data) % 256 >>

\* gzip.decompress: the input back, or a failure (BadGzipFile, zlib.error)
gzip_decompress(data) ==
    LET body == SubSeq(data, 4, Len(data) - 2)
        plain == [i \in DOMAIN body |-> (body[i] + 155) % 256]
    IN IF /\ Len(data) >= 5
          /\ SubSeq(data, 1, 3) = << 31, 139, 8 >>
          /\ data[Len(data) - 1] = Checksum(plain)
          /\ data[Len(data)] = Len(plain) % 256
       THEN [ok |-> TRUE, data |-> plain]
       ELSE [ok |-> FALSE, data |-> <<>>]

\* _build_header: version and header size, message type and flags, serialization and
\* compression, reserved
_build_header(msg_type, msg_flags, serialization, compression) ==
    << 17, (msg_type * 16 + msg_flags) % 256, (serialization * 16 + compression) % 256, 0 >>

\* n.to_bytes(4, 'big')
to_bytes(n) ==
    << (n \div 16777216) % 256, (n \div 65536) % 256, (n \div 256) % 256, n % 256 >>

\* int.from_bytes(b, 'big') for four bytes
from_bytes(b) == ((b[1] * 256 + b[2]) * 256 + b[3]) * 256 + b[4]

\* _build_full_request, as bytes: header, payload size, gzip of the JSON configuration
full_request_bytes(payload) ==
    LET compressed == gzip_compress(json_dumps(payload))
    IN _build_header(1, 0, 1, 1) \o to_bytes(Len(compressed)) \o compressed

\* _build_audio_request, as bytes: header, payload size, gzip of the raw audio
audio_request_bytes(chunk, is_last) ==
    LET compressed_audio == gzip_compress(chunk)
    IN _build_header(2, IF is_last THEN 2 ELSE 0, 0, 1)
           \o to_bytes(Len(compressed_audio)) \o compressed_audio

\* a frame as the server puts it on the connection: the 4-byte header, the payload size,
\* the payload as it is
server_frame_bytes(msg_type, msg_flags, payload) ==
    _build_header(msg_type, msg_flags, 0, 0) \o to_bytes(Len(payload)) \o payload

\* data[from:] for a 1-based position
From(data, from) == SubSeq(data, from, Len(data))

\* bytes.decode('utf-8', errors='ignore') on the bytes used here: bytes that are not ASCII
\* do not form valid sequences and are dropped
DecodeIgnore(data) == SelectSeq(data, LAMBDA b : b < 128)

\* bytes.decode('utf-8') can be done
Decodable(data) == \A i \in DOMAIN data : data[i] < 128

\* _parse_response: the length of the text up to the brace that closes the first one
\* (brace_count back at 0), 0 if it is never closed
RECURSIVE BraceEnd(_, _, _)
BraceEnd(text, i, brace_count) ==
    IF i > Len(text) THEN 0
    ELSE LET count == brace_count + (IF text[i] = 123 THEN 1
                                     ELSE IF text[i] = 125 THEN -1 ELSE 0)
         IN IF text[i] = 125 /\ count = 0 THEN i ELSE BraceEnd(text, i + 1, count)

\* the position of the first 1f 8b 08 in data, 0 if there is none
FindMagic(data) ==
    LET at(i) == i + 2 <= Len(data) /\ SubSeq(data, i, i + 2) = << 31, 139, 8 >>
    IN IF \E i \in DOMAIN data : at(i)
       THEN CHOOSE i \in DOMAIN data : at(i) /\ \A j \in 1..(i - 1) : ~at(j)
       ELSE 0

\* results of _parse_response
ParsedJson(obj) ==
    [kind |-> "json", request_id |-> obj.request_id,
     end_window_size |-> obj.end_window_size, msg_type |-> 0, raw |-> <<>>]

ParsedRaw(msg_type, raw) ==
    [kind |-> "raw", request_id |-> 0, end_window_size |-> 0, msg_type |-> msg_type,
     raw |-> raw]

ParsedError ==
    [kind |-> "error", request_id |-> 0, end_window_size |-> 0, msg_type |-> 0, raw |-> <<>>]

\* _parse_response
_parse_response(data) ==
    IF Len(data) < 4 THEN ParsedError
    ELSE
    LET msg_type == data[2] % 16
        header_size == ((data[2] \div 16) % 16) * 4
        \* 1: the text from the first "{" to its closing brace, as JSON
        json_start == Find(data, 123)
        json_data == DecodeIgnore(From(data, json_start))
        closed == BraceEnd(json_data, 1, 0)
        json_end == IF closed > 0 THEN closed ELSE Min(json_start - 1, Len(json_data))
        direct == IF json_start = 0 THEN [ok |-> FALSE, request_id |-> 0, end_window_size |-> 0]
                  ELSE json_loads(SubSeq(json_data, 1, json_end))
        \* 2: what follows the first gzip magic number, decompressed, as JSON
        gzip_pos == FindMagic(data)
        decompressed == IF gzip_pos = 0 THEN [ok |-> FALSE, data |-> <<>>]
                        ELSE gzip_decompress(From(data, gzip_pos))
        unzipped == IF decompressed.ok /\ Decodable(decompressed.data)
                    THEN json_loads(decompressed.data)
                    ELSE [ok |-> FALSE, request_id |-> 0, end_window_size |-> 0]
        \* 3: the payload after header and size, decompressed or as it is, as JSON
        sized == Len(data) > header_size + 4
        payload_size == IF sized THEN from_bytes(SubSeq(data, header_size + 1, header_size + 4))
                        ELSE 0
        payload == IF sized /\ payload_size < Len(data) /\ payload_size > 0
                   THEN SubSeq(data, header_size + 5,
                               Min(header_size + 4 + payload_size, Len(data)))
                   ELSE <<>>
        inflated == gzip_decompress(payload)
        standard == IF payload = <<>> THEN [ok |-> FALSE, request_id |-> 0, end_window_size |-> 0]
                    ELSE IF inflated.ok /\ Decodable(inflated.data)
                              /\ json_loads(inflated.data).ok
                    THEN json_loads(inflated.data)
                    ELSE IF Decodable(payload) THEN json_loads(payload)
                    ELSE [ok |-> FALSE, request_id |-> 0, end_window_size |-> 0]
    IN IF direct.ok THEN ParsedJson(direct)
       ELSE IF unzipped.ok THEN ParsedJson(unzipped)
       ELSE IF standard.ok THEN ParsedJson(standard)
       ELSE ParsedRaw(msg_type, From(data, header_size + 1))

\* a frame is about to be built from a configuration or from an audio payload
WireInit ==
    /\ EngineInit /\ VadIdle /\ AecIdle /\ NameIdle /\ WaitIdle
    /\ built_from \in FrameInputs
    /\ request_bytes = <<>> /\ resp_data = NotParsed

\* _build_full_request for the configuration
BuildFull ==
    /\ built_from.kind = "full" /\ request_bytes = <<>>
    /\ request_bytes' = full_request_bytes(built_from)
    /\ UNCHANGED << built_from, resp_data, vadVars, aecVars, nameVars, waitVars, engineVars >>

\* _build_audio_request for the audio payload
BuildAudio ==
    /\ built_from.kind = "audio" /\ request_bytes = <<>>
    /\ request_bytes' = audio_request_bytes(built_from.audio_data, built_from.is_last)
    /\ UNCHANGED << built_from, resp_data, vadVars, aecVars, nameVars, waitVars, engineVars >>

\* the server sends a frame:  response = await ws.recv()
ServerFrame ==
    /\ built_from.kind = "server" /\ request_bytes = <<>>
    /\ request_bytes' = server_frame_bytes(built_from.msg_type, built_from.msg_flags,
                                           built_from.audio_data)
    /\ UNCHANGED << built_from, resp_data, vadVars, aecVars, nameVars, waitVars, engineVars >>

\* _parse_response on the bytes of the frame
ParseFrame ==
    /\ request_bytes # <<>> /\ resp_data = NotParsed
    /\ resp_data' = _parse_response(request_bytes)
    /\ UNCHANGED << built_from, request_bytes, vadVars, aecVars, nameVars, waitVars, engineVars >>

WireNext == BuildFull \/ BuildAudio \/ ServerFrame \/ ParseFrame

WireSpec == WireInit /\ [][WireNext]_vars

\* ------------------------------------------------------------ EcEchoCanceller
\* most bridge processes launched, largest min_bytes asked for, longest timeout (in clock
\* ticks) and number of bytes the bridge writes to the cancelled-output pipe
MaxLaunches == 2
MaxMinBytes == 3
MaxTimeoutTicks == 2
MaxPipe == 4

\* an EcEchoCanceller is constructed, with or without the bridge enabled
AecInit ==
    /\ EngineInit /\ VadIdle /\ WireIdle /\ NameIdle /\ WaitIdle
    /\ enabled \in BOOLEAN
    /\ _proc = "None" /\ _playback_fd = "None" /\ _capture_fd = "None"
    /\ ec_alive = 0 /\ ec_launched = 0 /\ aec_last = "none"
    /\ pipe_pos = 0 /\ capture = NoCapture

\* start(): nothing when disabled or when the process of the handle is alive; otherwise
\* Popen (which may raise), then _wait_for_fifo for both FIFOs (which raises when one is
\* not there after 5 s), then both FIFOs are opened
Start ==
    /\ capture.status # "reading"
    /\ IF ~enabled
       THEN /\ aec_last' = "start_disabled"
            /\ UNCHANGED << _proc, _playback_fd, _capture_fd, ec_alive, ec_launched >>
       ELSE IF _proc = "alive"
       THEN /\ aec_last' = "start_noop"
            /\ UNCHANGED << _proc, _playback_fd, _capture_fd, ec_alive, ec_launched >>
       ELSE \/ /\ aec_last' = "start_failed_popen"
               /\ UNCHANGED << _proc, _playback_fd, _capture_fd, ec_alive, ec_launched >>
            \/ /\ ec_launched < MaxLaunches
               /\ _proc' = "alive" /\ ec_alive' = ec_alive + 1
               /\ ec_launched' = ec_launched + 1
               /\ \/ /\ aec_last' = "start_failed_fifo"
                     /\ UNCHANGED << _playback_fd, _capture_fd >>
                  \/ /\ aec_last' = "started"
                     /\ _playback_fd' = "open" /\ _capture_fd' = "open"
    /\ UNCHANGED << enabled, pipe_pos, capture, vadVars, wireVars, nameVars, waitVars, engineVars >>

\* the bridge process ends by itself
ProcExit ==
    /\ _proc = "alive"
    /\ _proc' = "exited" /\ ec_alive' = ec_alive - 1
    /\ UNCHANGED << enabled, _playback_fd, _capture_fd, ec_launched, aec_last, pipe_pos,
                    capture, vadVars, wireVars, nameVars, waitVars, engineVars >>

\* stop(): both descriptors are closed and cleared, a live process is terminated (killed
\* after 2 s), the handle is cleared
Stop ==
    /\ capture.status # "reading"
    /\ _playback_fd' = "None" /\ _capture_fd' = "None"
    /\ ec_alive' = IF _proc = "alive" THEN ec_alive - 1 ELSE ec_alive
    /\ _proc' = "None"
    /\ aec_last' = "stopped"
    /\ UNCHANGED << enabled, ec_launched, pipe_pos, capture, vadVars, wireVars, nameVars, waitVars,
                    engineVars >>

\* read_capture asking os.read for as many bytes as the whole request
ReadSize_whole(min_bytes, total) == min_bytes

\* read_capture:  os.read(self._capture_fd, min_bytes - total)
ReadSize(min_bytes, total) == min_bytes - total

\* the bytes n+1 .. n+k of the pipe
PipeBytes(n, k) == [i \in 1..k |-> n + i]

\* read_capture is called: b"" at once when disabled, RuntimeError when the capture FIFO
\* is not open, otherwise the loop starts with the clock at t0
CallRead ==
    /\ capture.status # "reading"
    /\ \E min_bytes \in 0..MaxMinBytes, timeout_s \in 1..MaxTimeoutTicks :
         capture' = [NoCapture EXCEPT
                       !.min_bytes = min_bytes, !.timeout_s = timeout_s,
                       !.from = pipe_pos,
                       !.status = IF ~enabled THEN "returned"
                                  ELSE IF _capture_fd = "None" THEN "raised"
                                  ELSE "reading",
                       !.err = IF enabled /\ _capture_fd = "None" THEN "not_started"
                               ELSE "none"]
    /\ UNCHANGED << enabled, _proc, _playback_fd, _capture_fd, ec_alive, ec_launched,
                    aec_last, pipe_pos, vadVars, wireVars, nameVars, waitVars, engineVars >>

\* read_capture: one test of the loop condition and, if it holds, one os.read: data (at
\* most the size asked for, from the front of the pipe), nothing or EAGAIN (sleep, retry),
\* or another OSError (raised)
ReadIter ==
    /\ capture.status = "reading"
    /\ IF capture.total < capture.min_bytes /\ capture.elapsed < capture.timeout_s
       THEN \/ \E n \in 1..ReadSize(capture.min_bytes, capture.total),
                 tick \in 0..1 :
                 /\ pipe_pos + n <= MaxPipe
                 /\ pipe_pos' = pipe_pos + n
                 /\ capture' = [capture EXCEPT
                                  !.chunks = Append(@, PipeBytes(pipe_pos, n)),
                                  !.total = @ + n,
                                  !.elapsed = Min(@ + tick, capture.timeout_s),
                                  !.last_read = "data"]
            \/ /\ \E kind \in { "empty", "eagain" } :
                    capture' = [capture EXCEPT !.elapsed = @ + 1, !.last_read = kind]
               /\ UNCHANGED pipe_pos
            \/ /\ capture' = [capture EXCEPT !.status = "raised", !.err = "oserror",
                                             !.last_read = "error"]
               /\ UNCHANGED pipe_pos
       ELSE /\ capture' = [capture EXCEPT !.status = "returned"]
            /\ UNCHANGED pipe_pos
    /\ UNCHANGED << enabled, _proc, _playback_fd, _capture_fd, ec_alive, ec_launched,
                    aec_last, vadVars, wireVars, nameVars, waitVars, engineVars >>

AecNext == Start \/ ProcExit \/ Stop \/ CallRead \/ ReadIter

AecSpec == AecInit /\ [][AecNext]_vars

\* b"".join(chunks)
RECURSIVE JoinBytes(_)
JoinBytes(chunks) == IF chunks = <<>> THEN <<>> ELSE Head(chunks) \o JoinBytes(Tail(chunks))

\* ------------------------------------------------------------ _extract_name, called
\* the longest utterance handed to _extract_name
MaxTextLen == 4

\* the characters of the utterances: wo, jiao, shi of the introductions, the characters of
\* a name, the question particle ma, a stop word (zai jian) and a comma
NameChars == { "wo", "jiao", "shi", "xiao", "ming", "ma", "zai", "jian", "," }

\* the utterances of up to MaxTextLen characters
NameTexts == UNION { [1..n -> NameChars] : n \in 0..MaxTextLen }

\* _handle_name_response about to call _extract_name(text)
NameInit ==
    /\ EngineInit /\ VadIdle /\ WireIdle /\ AecIdle /\ WaitIdle
    /\ \E t \in NameTexts : extraction = [status |-> "called", text |-> t, name |-> <<>>]

\* name = self._extract_name(text)
ExtractName ==
    /\ extraction.status = "called"
    /\ extraction' = [extraction EXCEPT !.status = "returned",
                                        !.name = _extract_name(extraction.text)]
    /\ UNCHANGED << vadVars, wireVars, aecVars, waitVars, engineVars >>

NameNext == ExtractName

NameSpec == NameInit /\ [][NameNext]_vars

\* the group of the first of the three patterns whose cleaned group passes the test
FirstPatternName(user_text) ==
    LET text == CollapseIntros(user_text)
        c1 == StripPunctuation(Pattern1(text))
        c2 == StripPunctuation(Pattern2(text))
        c3 == StripPunctuation(Pattern3(text))
    IN IF AcceptedName(c1) THEN c1
       ELSE IF AcceptedName(c2) THEN c2
       ELSE IF AcceptedName(c3) THEN c3
       ELSE NoName

\* --------------------------------------- _wait_for_speech_start, chunk by chunk
\* the most reads of one call followed
MaxWaitReads == 4

\* byte lengths of the chunks read: nothing, half a frame, one frame, a frame and a part
\* of one, two frames
WaitLens == { 0, 500, 960, 1500, 1920 }

\* len(frames) of  [chunk[i:i + frame_size] for i in range(0, len(chunk), frame_size)]
NumSlices(len) == (len + frame_size - 1) \div frame_size

\* the chunks a read may return: a length and the sub-frames in which somebody speaks
WaitChunks ==
    UNION { { [len |-> len, voiced_at |-> v] : v \in SUBSET (0..(NumSlices(len) - 1)) }
            : len \in WaitLens }

\* chunk[i * frame_size : (i + 1) * frame_size] of the read numbered id
SubFrame(id, chunk, i) ==
    Slice([id |-> id, len |-> chunk.len, voiced |-> i \in chunk.voiced_at],
          i * frame_size, (i + 1) * frame_size)

\* read_and_check: the sub-frames that take part in the vote (if len(f) < frame_size: continue)
Voters(id, chunk) ==
    { i \in 0..(NumSlices(chunk.len) - 1) : FrameLen(SubFrame(id, chunk, i)) >= frame_size }

\* read_and_check:  is_speech = total_votes > 0 and (speech_votes / total_votes) >= 0.5
ChunkVote(speech_votes, total_votes) == total_votes > 0 /\ 2 * speech_votes >= total_votes

\* read_and_check on a chunk that was read
read_and_check(id, chunk) ==
    LET total_votes == Cardinality(Voters(id, chunk))
        speech_votes == Cardinality({ i \in Voters(id, chunk) : is_speech(SubFrame(id, chunk, i)) })
    IN ChunkVote(speech_votes, total_votes)

\* _wait_for_speech_start is called with the engine running and silent
WaitInit ==
    /\ EngineInit /\ VadIdle /\ WireIdle /\ AecIdle /\ NameIdle
    /\ onset_wait = [NoOnsetWait EXCEPT !.status = "waiting"]

\* _wait_for_speech_start: one iteration of its loop; a read that raises gives (None, False)
WaitRead ==
    /\ onset_wait.status = "waiting"
    /\ running /\ ~is_speaking
    /\ Len(onset_wait.reads) < MaxWaitReads
    /\ \E ok \in BOOLEAN, c \in WaitChunks :
         LET id == Len(onset_wait.reads) + 1
             chunk == IF ok THEN c ELSE [len |-> 0, voiced_at |-> {}]
             speech == ok /\ read_and_check(id, chunk)
             count == IF speech THEN onset_wait.consecutive_speech + 1 ELSE 0
         IN /\ ~ok => c.len = 0
            /\ onset_wait' =
                 [ status |-> IF speech /\ count >= speech_threshold THEN "onset" ELSE "waiting",
                   reads |-> Append(onset_wait.reads,
                                    [ok |-> ok, chunk |-> chunk, is_speech |-> speech]),
                   consecutive_speech |-> count,
                   pre_buffer |-> IF ok /\ chunk.len > 0
                                  THEN PreRoll(onset_wait.pre_buffer, id)
                                  ELSE onset_wait.pre_buffer ]
    /\ UNCHANGED << vadVars, wireVars, aecVars, nameVars, engineVars >>

WaitNext == WaitRead

WaitSpec == WaitInit /\ [][WaitNext]_vars

\* the sub-frames of a read, each brought to frame_size and classified, of which at least
\* half are speech
HalfOfSubFramesSpeech(id, r) ==
    LET n == NumSlices(r.chunk.len)
        sp == Cardinality({ i \in 0..(n - 1) : is_speech(SubFrame(id, r.chunk, i)) })
    IN r.ok /\ n > 0 /\ 2 * sp >= n

\* the reads at the end of the call that counted as speech, one after the other
RECURSIVE SpeechRun(_)
SpeechRun(reads) ==
    IF reads = <<>> \/ ~reads[Len(reads)].is_speech THEN 0
    ELSE 1 + SpeechRun(SubSeq(reads, 1, Len(reads) - 1))

\* ------------------------------------------------------------ positions by phase
\* inside _speak, from its call to the end of its finally block
SpeakPcs == { "speak", "tts_conn_ack", "tts_sess_ack", "tts_recv", "barge_in",
              "speak_end", "speak_finally" }

\* inside _realtime_recognize, after is_listening was set
RecogPcs == { "asr_connect", "asr_ack", "asr_await_recv", "asr_finally", "recog_finish" }

\* inside _handle_speech, outside _speak
RespondPcs == { "handle_speech", "after_identify", "exit_done", "name_response",
                "name_reask" }

\* the record of the last completed _speak is that of a playback cut by barge-in
LastSpokenBarged == spoken # <<>> /\ spoken[Len(spoken)].barged

\* the results receive_results hands to on_result for the messages msgs, in order
RECURSIVE Delivered(_)
Delivered(msgs) ==
    IF msgs = <<>> THEN <<>>
    ELSE LET r == _extract_result(Head(msgs).raw, Head(msgs).definite)
         IN (IF r.some THEN << [text |-> r.text, is_final |-> r.is_final] >> ELSE <<>>)
            \o Delivered(Tail(msgs))

\* the text of the last result handed to on_result, empty when there was none
LastDelivered == IF on_result_log = <<>> THEN NoText
                 ELSE on_result_log[Len(on_result_log)].text

\* the number of frames with the last flag sent in this recognizer session
LastFrames == Cardinality({ i \in 1..Len(asr_sent) : asr_sent[i].is_last })

\* the chunks carried by the audio frames sent in this recognizer session, in sending order
SentAudio ==
    LET fs == SelectSeq(asr_sent, LAMBDA f : f.kind = "audio" /\ ~f.is_last)
    IN [i \in 1..Len(fs) |-> fs[i].chunk]

\* s is an initial segment of t
IsPrefix(s, t) == Len(s) <= Len(t) /\ s = SubSeq(t, 1, Len(s))

\* the chunks of s are in capture order, none twice
InCaptureOrder(s) == \A i, j \in 1..Len(s) : i < j => s[i] < s[j]

\* the chunks of the buffers written to the audio device, in writing order
RECURSIVE Written(_)
Written(ws_) == IF ws_ = <<>> THEN <<>> ELSE Head(ws_) \o Written(Tail(ws_))

\* the chunks synthesize_stream has yielded so far, in order, are numbered from 1
YieldedIds == [i \in 1..tts_yielded |-> i]

\* the numbers of the chunks cs
ChunkIds(cs) == [i \in 1..Len(cs) |-> cs[i].id]

C2_Original ==
    (pc \in RespondPcs \cup SpeakPcs \cup { "handled" } /\ HasExitKeyword(final_text))
        => chat_calls = <<>>

\* C2: in a turn whose transcript contains an exit keyword brain.chat is invoked at most
\* once, and only with the fixed text "zai jian" that fetches the farewell: the transcript
\* is never handed to it for a general reply.
C2_ChatOnlyForFarewell ==
    (pc \in RespondPcs \cup SpeakPcs \cup { "handled", "caught" } /\ HasExitKeyword(final_text))
        => /\ Len(chat_calls) <= 1
           /\ \A i \in 1..Len(chat_calls) : chat_calls[i].text = <<"zai", "jian">>

\* the farewell of a turn whose transcript is not itself "zai jian" has been fetched
C2_Witness ==
    /\ HasExitKeyword(final_text) /\ final_text # <<"zai", "jian">>
    /\ pc = "exit_done"
    /\ Len(chat_calls) = 1

\* C3: in an interruptible _speak with the bridge enabled the microphone is sampled only
\* right after a buffered write; the playback is cut exactly when at least 60% of the
\* sampled full frames are speech; from the cut on no chunk is consumed and nothing is
\* written, is_speaking becomes false at the end of _speak, and the engine goes from there
\* to waiting for speech onset and nowhere else.
C3_BargeInCutsPlayback ==
    /\ sampled.taken
          => /\ interruptible /\ _aec_enabled /\ audio_stream = "open"
             /\ buffer = <<>> /\ played # <<>>
             /\ barged <=> (sampled.total > 0 /\ sampled.votes * 10 >= sampled.total * 6)
    /\ barged
          => /\ pc \in { "speak_end", "speak_finally" }
             /\ sampled.taken
             /\ tts_yielded = sampled.yielded /\ Len(played) = sampled.writes
             /\ buffer = <<>>
    /\ (LastSpokenBarged /\ pc \notin SpeakPcs)
          => /\ pc \in { "handled", "loop", "wait_speech" }
             /\ ~is_speaking /\ running /\ _aec_enabled /\ wait_after_speak = 0
             /\ spoken[Len(spoken)].interruptible

\* the engine waits for speech onset right after a playback that barge-in cut
C3_Witness == pc = "wait_speech" /\ LastSpokenBarged /\ ~is_speaking

\* C4 as stated: after a barge-in the synthesizer connection of the utterance is closed
\* before the engine leaves _speak for its next phase, and two synthesizer connections
\* are never open together.
C4_TornDownOnBargeIn ==
    /\ (LastSpokenBarged /\ pc \notin SpeakPcs) => tts_open = 0
    /\ tts_open <= 1

\* C5: at most one recognizer connection is open; when recognize_realtime has returned,
\* on whichever path, its connection is closed and its send and receive tasks have ended;
\* a recognizer session is opened only while none is open.
C5_OneRecognizerSession ==
    /\ asr_open <= 1
    /\ pc = "recog_finish"
          => /\ ws # "open" /\ asr_open = 0
             /\ send_task \in { "none", "done", "cancelled" }
             /\ recv_task \in { "none", "done" }
             /\ recv_end \in { "final", "timeout", "closed", "error", "connect_failed",
                               "ack_timeout", "ack_error", "ack_closed" }
    /\ pc = "asr_connect" => (asr_open = 0 /\ ws = "none")
    /\ pc \notin RecogPcs => asr_open = 0

\* recognize_realtime has returned after a session that had a connection
C5_Witness == pc = "recog_finish" /\ ws = "closed" /\ recv_end \in { "final", "closed" }

\* C6: the phases are mutually exclusive: is_listening and is_speaking are never both
\* true, is_listening is true only inside _realtime_recognize and is_speaking only inside
\* _speak, and neither is true while the engine waits for speech onset or is in
\* _handle_speech outside _speak.
C6_OnePhase ==
    /\ ~(is_listening /\ is_speaking)
    /\ is_listening => pc \in RecogPcs
    /\ is_speaking => pc \in SpeakPcs \ { "speak" }
    /\ pc \in RespondPcs \cup { "wait_speech", "recog", "loop" }
          => (~is_listening /\ ~is_speaking)

\* the engine is speaking a reply, after the listening and recognizing phases of the turn
C6_Witness ==
    /\ is_speaking /\ ~is_listening
    /\ speak_kind = "reply" /\ pc = "tts_recv" /\ played # <<>>

\* C7 as stated: in a session whose stop event was set by a definite transcript or by a
\* receive timeout, exactly one frame with the last flag has been sent when the connection
\* is closed.
C7_LastFrameSent ==
    (pc = "recog_finish" /\ recv_end \in { "final", "timeout" }) => LastFrames = 1

\* C8: on_result is called for exactly the transcripts received, in receipt order; when
\* a definite transcript is received it is the last one delivered, the stop event is set,
\* receiving has stopped, and recognize_realtime returns that transcript's text.
C8_DefiniteTranscriptReturned ==
    /\ pc \in RecogPcs => on_result_log = Delivered(asr_received)
    /\ \A i \in 1..(Len(on_result_log) - 1) : ~on_result_log[i].is_final
    /\ (recv_end = "final" /\ pc \in RecogPcs)
          => /\ on_result_log # <<>>
             /\ on_result_log[Len(on_result_log)].is_final
             /\ stop_asr_event /\ recv_task = "done"
             /\ final_text = LastDelivered
    /\ (recv_end = "final" /\ pc \in { "asr_finally", "recog_finish" })
          => asr_result = Text(LastDelivered)

\* recognize_realtime has returned on a definite transcript that followed an interim one
C8_Witness ==
    /\ pc = "recog_finish" /\ recv_end = "final"
    /\ Len(on_result_log) = 2
    /\ asr_result.text = <<"qing", "yu", "bai", "bai">>

C11_OneReadAtATime ==
    (pc = "wait_speech" /\ listen_reads > 0) => ~stale_read

\* C12: during a recognizer session the chunks sent in audio frames are an initial segment
\* of the pre-roll chunks followed by the chunks _send_audio_to_asr read, in capture
\* order, with no chunk twice and none out of order.
C12_FramesInCaptureOrder ==
    pc \in RecogPcs =>
        /\ IsPrefix(pre_buffer, audio_buffer)
        /\ InCaptureOrder(audio_buffer)
        /\ IsPrefix(SentAudio, audio_buffer)
        /\ audio_buffer = SentAudio \o audio_queue
               \/ send_task \in { "done", "cancelled" }

\* the whole pre-roll and a chunk read by _send_audio_to_asr have been sent
C12_Witness ==
    /\ pc = "asr_await_recv"
    /\ Len(pre_buffer) >= speech_threshold
    /\ Len(SentAudio) > Len(pre_buffer)
    /\ SentAudio = audio_buffer

\* C13: when _speak ends without barge-in, what it wrote to the audio device is, chunk for
\* chunk, what synthesize_stream yielded, in that order (the residual buffer included);
\* before that, the writes followed by the buffer are the chunks yielded so far.
C13_PlaybackIsTheStream ==
    /\ pc \in { "tts_recv", "barge_in", "speak_end" }
          => ChunkIds(Written(played) \o buffer) = YieldedIds
    /\ (pc = "speak_finally" /\ ~barged) => ChunkIds(Written(played)) = YieldedIds

\* a playback that ended without barge-in after a threshold write and a residual flush
C13_Witness ==
    /\ pc = "speak_finally" /\ ~barged
    /\ tts_yielded >= 2 /\ Len(played) >= 2
    /\ buffer # <<>> /\ played[Len(played)] = buffer

\* C14 as stated: once a full-JSON frame with event 152 has been received, whatever its
\* payload, synthesize_stream reads no further server frame and yields no further chunk.
C14_SessionFinishedEndsStream ==
    [][response = "SessionFinished"
          => (tts_frames' = tts_frames /\ tts_yielded' = tts_yielded)]_vars

\* C15 as stated: StartSession has been sent only if the frame received for
\* StartConnection was ConnectionStarted, and TaskRequest and FinishSession only if the
\* frame received for StartSession was SessionStarted; the receive loop, where audio
\* frames are yielded, is entered only then.
C15_HandshakeAcknowledged ==
    /\ (pc = "tts_sess_ack" /\ tts_sent = << 1, 100 >>) => response = "ConnectionStarted"
    /\ (pc = "tts_recv" /\ tts_frames = 0 /\ tts_sent = << 1, 100, 200, 102 >>)
          => response = "SessionStarted"

\* C16 as stated: when the last frame received was an error frame, the stream has ended:
\* synthesize_stream has sent no request after it and is not waiting for, or yielding,
\* audio.
C16_ErrorFrameEndsStream ==
    response = "error" => pc \notin { "tts_sess_ack", "tts_recv", "barge_in" }

\* C17: in a turn that started with awaiting_name false and in which identification gave
\* no identity but an embedding, the embedding is pending registration, awaiting_name is
\* set, the name-elicitation prompt is spoken with interruptible false and without any
\* barge-in check, and brain.chat is not called.
C17_StrangerIsAskedForName ==
    (identify_calls = << "stranger" >>) =>
        /\ ~awaiting_at_start
        /\ pending_registration /\ awaiting_name
        /\ chat_calls = <<>>
        /\ pc \in SpeakPcs \cup { "after_identify", "handled" }
        /\ pc \in SpeakPcs
              => (speak_kind = "ask_name" /\ ~interruptible /\ barge_checks = 0)
        /\ pc \in { "after_identify", "handled" }
              => spoken = << [kind |-> "ask_name", interruptible |-> FALSE,
                              checked |-> FALSE, barged |-> FALSE] >>

\* a stranger's turn has ended with the prompt spoken
C17_Witness ==
    /\ identify_calls = << "stranger" >> /\ pc = "handled"
    /\ awaiting_name /\ spoken # <<>>

\* C18: a turn that starts with awaiting_name true goes through _handle_name_response
\* only: no identification, no brain.chat, no exit (running stays true whatever the
\* transcript), and what is spoken is spoken by the name-response path, not interruptibly.
C18_NamePathOnly ==
    awaiting_at_start =>
        /\ identify_calls = <<>> /\ chat_calls = <<>>
        /\ running
        /\ pc \in SpeakPcs \cup { "name_response", "name_reask", "handled" }
        /\ pc \in SpeakPcs
              => /\ speak_kind \in { "welcome", "skip_reply", "other_reply", "reask",
                                     "retry" }
                 /\ ~interruptible

\* a turn in AwaitingName whose transcript holds an exit keyword has ended
C18_Witness ==
    /\ awaiting_at_start /\ HasExitKeyword(final_text)
    /\ pc = "handled" /\ running

\* C19 as stated: when a turn in AwaitingName with the transcript "suan le" has been
\* handled, awaiting_name is cleared, the pending registration is cancelled, and no
\* speaker has been registered under the utterance.
C19_SkipNeverRegisters ==
    (awaiting_at_start /\ final_text = << "suan", "le" >> /\ pc = "handled")
        => /\ ~awaiting_name /\ ~pending_registration
           /\ current_speaker_name # final_text
           /\ spoken # <<>> /\ spoken[Len(spoken)].kind = "skip_reply"

\* the classification found an unrelated statement, or no name
NoNameDetermined ==
    \/ ai_result.kind \in { "other_intent", "nothing" }
    \/ ai_result.kind = "is_name" /\ ai_result.name = NoName

\* C20: in a turn in AwaitingName whose utterance was classified as an unrelated statement
\* or gave no name, the engine speaks a prompt for the name again, awaiting_name stays
\* set and the embedding stays pending (nobody is registered), and brain.chat is not
\* called.
C20_UnrelatedKeepsAsking ==
    (awaiting_at_start /\ NoNameDetermined) =>
        /\ awaiting_name /\ pending_registration
        /\ chat_calls = <<>> /\ identify_calls = <<>>
        /\ pc \in SpeakPcs \cup { "name_reask", "handled" }
        /\ pc \in SpeakPcs
              => (speak_kind \in { "other_reply", "reask", "retry" } /\ ~interruptible)
        /\ pc = "handled"
              => (spoken # <<>> /\ spoken[Len(spoken)].kind \in { "reask", "retry" })

\* an unrelated statement was answered and the name asked for again
C20_Witness ==
    /\ awaiting_at_start /\ ai_result.kind = "other_intent" /\ ai_result.reply
    /\ pc = "handled" /\ Len(spoken) = 2
    /\ awaiting_name /\ pending_registration

\* C21 as stated: a turn in which the speaker identification raised still ends with
\* brain.chat called and a reply (or the farewell) spoken.
C21_IdentifyFailureIsNoResult ==
    (identify_calls = << "raised" >> /\ pc \in { "handled", "caught" })
        => /\ chat_calls # <<>>
           /\ spoken # <<>> /\ spoken[Len(spoken)].kind \in { "reply", "farewell" }

\* C22 as stated: with echo cancellation configured, a start_stream that fails because the
\* bridge did not come up (aec.start raising "FIFO not ready") does not end run(): the
\* engine is never left without having entered its main loop.
C22_BridgeFailureIsConfined ==
    _aec_enabled => pc # "crashed"

\* C23: an exception raised while a turn is processed is caught by the main loop: from the
\* except clause the loop iterates with running still true and is_speaking and is_listening
\* both false, and a running loop leaves its top only to wait for speech.
C23_TurnExceptionIsCaught ==
    [][ /\ (pc = "caught")
            => (pc' \in { "caught", "loop" } /\ running' /\ ~is_speaking' /\ ~is_listening')
        /\ (pc = "loop" /\ running /\ pc' # "loop") => (pc' = "wait_speech") ]_vars

\* C23 witness: the except clause has caught the exception of a turn.
C23_Witness ==
    /\ pc = "caught" /\ running /\ ~is_speaking /\ ~is_listening
    /\ \/ identify_calls = << "raised" >>
       \/ chat_calls # <<>>

C25_SettleBeforeCapture ==
    [][ ~_aec_enabled
          => /\ barge_checks' = 0
             /\ (pc = "speak_finally" /\ pc' # pc) => (wait_after_speak' = settle_ticks)
             /\ (wait_after_speak' # wait_after_speak /\ pc # "speak_finally")
                    => (pc = "loop" /\ pc' = "loop"
                        /\ wait_after_speak' = wait_after_speak - 1)
             /\ (pc' = "wait_speech") => (wait_after_speak' = 0) ]_vars

\* C25 witness: without echo cancellation the engine waits for speech again after a reply
\* was played without a barge-in check and the settle delay has run out.
C25_Witness ==
    /\ ~_aec_enabled /\ pc = "wait_speech" /\ wait_after_speak = 0
    /\ spoken # <<>> /\ spoken[Len(spoken)].kind = "reply"
    /\ spoken[Len(spoken)].interruptible /\ ~spoken[Len(spoken)].checked

\* ------------------------------------------------------------ claims on the detector
\* every chunk the stream has yielded is one frame of exactly frame_size bytes
ExactFrames == \A i \in DOMAIN stream_read : stream_read[i].len = frame_size

\* the frame that started the turn completes speech_start_frames consecutive speech frames
StartsAtOnset ==
    detect.triggered
        => /\ detect.started_at >= speech_start_frames
           /\ \A i \in (detect.started_at - speech_start_frames + 1)..detect.started_at :
                  detect.seen[i].is_speech

\* the turn was ended by the frame that completes speech_end_frames consecutive silent
\* frames, all of them after the start, and the audio returned is the recorded audio
\* (every frame since the start is recorded) without exactly these frames
EndsAtSilence ==
    LET n == Len(detect.seen)
        recorded == detect.voiced_frames
        since == n - detect.started_at
    IN /\ detect.triggered
       /\ n - speech_end_frames >= detect.started_at
       /\ \A i \in (n - speech_end_frames + 1)..n : ~detect.seen[i].is_speech
       /\ Len(recorded) >= since
       /\ SubSeq(recorded, Len(recorded) - since + 1, Len(recorded))
              = FramesOf(SubSeq(detect.seen, detect.started_at + 1, n))
       /\ detect.voiced_audio.frames
              \o FramesOf(SubSeq(detect.seen, n - speech_end_frames + 1, n)) = recorded
       /\ ~detect.voiced_audio.none

\* C26 as stated: on exact-size frames a turn starts only at the frame completing
\* speech_start_frames consecutive speech frames, and whenever the audio of a turn is
\* returned the turn was ended by speech_end_frames consecutive silent frames, which are
\* removed from the audio.
C26_Original ==
    ExactFrames
        => /\ StartsAtOnset
           /\ (detect.returned # "no" /\ ~detect.voiced_audio.none) => EndsAtSilence

\* C26 amended: on exact-size frames a turn starts only at the frame completing
\* speech_start_frames consecutive speech frames; a return from inside the loop happens
\* only at the frame completing speech_end_frames consecutive silent frames after the
\* start and yields the recorded audio without exactly these frames; when the stream is
\* exhausted during a turn, the recorded audio is returned whole, trailing silence included.
C26_TurnDetection ==
    ExactFrames
        => /\ StartsAtOnset
           /\ (detect.returned = "silence") => EndsAtSilence
           /\ (detect.returned = "exhausted")
                  => detect.voiced_audio
                        = Joined(IF detect.triggered THEN detect.voiced_frames ELSE <<>>)

\* C26 witness: a turn on exact-size frames was started, ended by silence and returned
\* with audio left after the trimming.
C26_Witness ==
    /\ ExactFrames /\ detect.returned = "silence"
    /\ detect.voiced_audio.frames # <<>>
    /\ Len(detect.seen) > detect.started_at + speech_end_frames

\* C27 as stated: whatever the two thresholds are, the audio recorded for a detected turn
\* contains, in capture order, every one of the speech_start_frames consecutive speech
\* frames that confirmed the onset.
C27_OnsetFramesKept ==
    detect.triggered
        => LET onset == FramesOf(SubSeq(detect.seen,
                                        detect.started_at - speech_start_frames + 1,
                                        detect.started_at))
               recorded == detect.voiced_frames
           IN \E k \in 0..(Len(recorded) - speech_start_frames) :
                  SubSeq(recorded, k + 1, k + speech_start_frames) = onset

\* the number of bytes of chunk id held by a sequence of frames
RECURSIVE BytesOf(_, _)
BytesOf(frames, id) ==
    IF frames = <<>> THEN 0
    ELSE (IF Head(frames).id = id THEN FrameLen(Head(frames)) ELSE 0)
         + BytesOf(Tail(frames), id)

\* C28 as stated: no captured audio is dropped by the detector: every byte of every chunk
\* read belongs to a sub-frame that was classified, and every byte of a chunk read during
\* an active turn is in the audio recorded for the turn.
C28_NoBytesDropped ==
    detect.returned = "no"
        => \A i \in DOMAIN stream_read :
              LET chunk == stream_read[i]
              IN /\ BytesOf(FramesOf(detect.seen), chunk.id) = chunk.len
                 /\ (detect.triggered
                     /\ chunk.id > detect.seen[detect.started_at].frame.id)
                        => BytesOf(detect.voiced_frames, chunk.id) = chunk.len

\* C29 as stated: parsing the bytes of a configuration frame gives back the configuration,
\* and parsing the bytes of an audio frame gives back the raw audio payload it was built
\* from.
C29_FramesRoundTrip ==
    resp_data # NotParsed
        => /\ (built_from.kind = "full")
                 => /\ resp_data.kind = "json"
                    /\ resp_data.request_id = built_from.request_id
                    /\ resp_data.end_window_size = built_from.end_window_size
           /\ (built_from.kind = "audio")
                 => /\ resp_data.kind = "raw"
                    /\ resp_data.raw = built_from.audio_data

\* C30 as stated: every write of an utterance to the audio channel other than its last one
\* carries at least 6400 bytes (200 ms of 16 kHz 16-bit mono PCM).
C30_WritesOfAtLeast200ms ==
    \A i \in 1..(Len(played) - 1) : BufLen(played[i]) >= 6400

\* C31: read_capture on the open pipe of an enabled bridge returns the bytes it read, in
\* pipe order, never more than min_bytes, and fewer than min_bytes only once the timeout has
\* elapsed; it raises only on an OSError other than would-block, never after an empty or
\* would-block read.
C31_ReadCapture ==
    /\ (enabled /\ capture.status = "returned")
          => LET ret == JoinBytes(capture.chunks)
             IN /\ ret = PipeBytes(capture.from, Len(ret))
                /\ Len(ret) <= capture.min_bytes
                /\ Len(ret) = capture.total
                /\ (Len(ret) < capture.min_bytes) => (capture.elapsed >= capture.timeout_s)
    /\ (capture.status = "raised" /\ capture.err = "oserror")
          => capture.last_read = "error"

\* C31 witness: a read that got bytes in two pieces and a retry in between returned short
\* after the timeout.
C31_Witness ==
    /\ enabled /\ capture.status = "returned"
    /\ Len(capture.chunks) = 2
    /\ capture.total < capture.min_bytes
    /\ capture.elapsed >= capture.timeout_s

\* C40 as stated: a start() that failed because a FIFO was not ready leaves no bridge
\* process running and no descriptor open; after stop() the handle and both descriptors
\* are cleared; and there is never a second bridge process alive.
C40_FailedStartLeavesNothing ==
    /\ (aec_last = "start_failed_fifo")
          => (ec_alive = 0 /\ _playback_fd = "None" /\ _capture_fd = "None")
    /\ (aec_last = "stopped")
          => (_proc = "None" /\ _playback_fd = "None" /\ _capture_fd = "None")
    /\ ec_alive <= 1

\* C32 as stated: however run() ends (exit keyword, KeyboardInterrupt, or start_stream raising
\* before the main loop), running is false and audio_device.stop_stream has closed the
\* capture stream.
C32_EveryExitReleases ==
    (pc \in { "stopped", "crashed" }) => (~running /\ audio_stream # "open")

\* C33 as stated: _extract_name returns the group X of the first of its three patterns
\* (wo shi / wo jiao / wo de ming zi shi X, then jiao wo X, then a bare utterance of two to
\* four characters) for which X has two to four characters, is no stop word and does not end
\* with ma, and None when no pattern gives such a group; "wo jiao xiao ming" gives
\* "xiao ming" and a stop word is never returned.
C33_NameFromPatterns ==
    (extraction.status = "returned")
        => /\ extraction.name = FirstPatternName(extraction.text)
           /\ extraction.name \notin skip_words
           /\ (extraction.text = << "wo", "jiao", "xiao", "ming" >>)
                 => (extraction.name = << "xiao", "ming" >>)

\* C34 as stated: in _wait_for_speech_start every sub-frame of a chunk, also of a chunk whose
\* length is no multiple of frame_size, is classified, and the chunk counts as speech iff at
\* least half of its sub-frames are speech; the onset is reported only when the last
\* speech_threshold chunks all counted as speech, and the count is the number of speech
\* chunks since the last non-speech chunk or failed read.
C34_ChunkVoteAndOnset ==
    /\ \A id \in DOMAIN onset_wait.reads :
          onset_wait.reads[id].is_speech <=> HalfOfSubFramesSpeech(id, onset_wait.reads[id])
    /\ (onset_wait.status = "onset") => (SpeechRun(onset_wait.reads) >= speech_threshold)
    /\ (onset_wait.status = "waiting")
          => (onset_wait.consecutive_speech = SpeechRun(onset_wait.reads))

\* C35 as stated: for a server frame with a conformant header _parse_response takes the
\* message type from the upper half of byte 1 and the header to be 4 bytes long, so what it
\* returns for a payload it cannot decode is that message type and the bytes after the header.
C35_HeaderIsFourBytes ==
    (built_from.kind = "server" /\ resp_data.kind = "raw")
        => /\ resp_data.msg_type = built_from.msg_type
           /\ resp_data.raw = From(request_bytes, 5)

\* C36 as stated: in a turn in which speaker identification gave no result (no identity and
\* no embedding, or no audio to identify), brain.chat is called with speaker = None, never
\* with the name identified in an earlier turn.
C36_NoResultIsUnauthenticated ==
    (/\ chat_calls # <<>> /\ ~awaiting_at_start
     /\ (identify_calls = <<>> \/ identify_calls[Len(identify_calls)] = "nothing"))
        => chat_calls[Len(chat_calls)].speaker = NoName

\* C37: the audio _realtime_recognize hands over for speaker identification is the audio
\* buffer of the turn, i.e. the pre-roll followed by the chunks _send_audio_to_asr enqueued,
\* in capture order; the chunks sent to the recognizer are an initial segment of it; and
\* until _handle_speech (or the discarding of the turn) takes it, nothing changes it.
C37_HandedAudioIsTheEnqueuedAudio ==
    [][ /\ (pc = "recog_finish" /\ pc' # pc)
            => /\ audio_data' = audio_buffer
               /\ IsPrefix(pre_buffer, audio_data')
               /\ IsPrefix(SentAudio, audio_data')
               /\ InCaptureOrder(audio_data')
               /\ (send_task \notin { "done", "cancelled" })
                     => (audio_data' = SentAudio \o audio_queue)
        /\ (pc \in { "handle_speech", "discard" } /\ pc' = pc)
            => (audio_data' = audio_data) ]_vars

\* C37 witness: a turn's audio, the whole pre-roll and a chunk read during recognition, has
\* been handed over and awaits speaker identification.
C37_Witness ==
    /\ pc = "handle_speech"
    /\ Len(audio_data) > speech_threshold
    /\ InCaptureOrder(audio_data)

\* C38: wherever the main loop stands between two turns (at the top of an iteration, waiting
\* for speech, or with a turn just handled or its exception just caught), awaiting_name is
\* true exactly when the speaker identifier holds a pending registration.
C38_AwaitingIffPending ==
    (pc \in { "loop", "wait_speech", "handled", "caught" })
        => (awaiting_name <=> pending_registration)

\* C38 witness: a turn in AwaitingName was answered with a skip, and the turn has ended with
\* awaiting_name and the pending registration both cleared.
C38_Witness ==
    /\ pc = "handled" /\ awaiting_at_start /\ ai_result.kind = "skip"
    /\ ~awaiting_name /\ ~pending_registration

\* C39 as stated: the client frames of a synthesizer session are StartConnection (1),
\* StartSession (100), TaskRequest (200) and FinishSession (102), in this order and each at
\* most once, so that nothing is sent after FinishSession.
C39_FinishSessionIsLast ==
    IsPrefix(tts_sent, << 1, 100, 200, 102 >>)

====
